---- MODULE Spec2Model ----
(***************************************************************************)
(* HomeVoice Connect: the orchestrator's state machine                     *)
(* (custom_components/homevoice_connect/__init__.py), the VAD-gated        *)
(* capture (audio_capture_vad.py) and the wake-word detector               *)
(* (wake_word_handler.py).                                                 *)
(*                                                                         *)
(* Spec      the main loop, capture_audio with its capture thread, and     *)
(*           the trigger callbacks the detector schedules on the loop.     *)
(* SpecWake  the detector thread frame by frame: queue, window, score,     *)
(*           threshold, callback.                                          *)
(* SpecReentrant  Spec with a second caller of capture_audio.              *)
(* SpecHang  Spec with a frame read that never returns.                    *)
(* SpecShutdown  Spec with async_shutdown of the orchestrator, the         *)
(*           detector and the capture.                                     *)
(* SpecRetry the retry loop of gemini_live_client.py.                      *)
(* SpecProcess  process_audio of gemini_live_client.py with the retry      *)
(*           loop inside.                                                  *)
(* SpecInit  async_initialize component by component, over the device     *)
(*           tables and the configured names.                              *)
(* SpecLive  Spec under fair scheduling of the event loop and the capture  *)
(*           thread.                                                       *)
(* SpecPlay  play_response of response_handler.py over its arguments.     *)
(* SpecListen  the main loop and the capture of Spec with the detector     *)
(*           thread of SpecWake in place of the abstract triggers.         *)
(*                                                                         *)
(* Times of the capture are in milliseconds, sleeps of the main loop in    *)
(* tenths of a second.  The durations of audio_capture_vad.py are scaled   *)
(* down (the source: 15 s, 2 s, 300 ms, 2 s grace) and so is the window    *)
(* of the detector; every formula is stated over the names, not the        *)
(* values.                                                                 *)
(***************************************************************************)
EXTENDS Integers, Sequences, FiniteSets, TLC

(* ---------------- program constants ---------------- *)
RATE == 16000
CHUNK_DURATION_MS == 30
SAMPLE_WIDTH == 2
CHUNK_SIZE == (RATE * CHUNK_DURATION_MS) \div 1000
FRAME_BYTES == CHUNK_SIZE * SAMPLE_WIDTH
\* the RIFF/WAVE header wave.Wave_write.close() writes, frames or not
WAV_HEADER_BYTES == 44
IDLE_POLL_TENTHS == 1
\* gemini_live_client.py: attempts of a request, seconds of the first backoff
RETRIES == 3
BACKOFF_BASE == 1
COOLDOWN_TENTHS == 10
\* wake_word_handler.py 23, 26: samples of a chunk, seconds of the window
CHUNK == 1280
DETECTION_WINDOW == 2
DEFAULT_WAKE_WORD_SENSITIVITY == 5

(* ---------------- bounds ---------------- *)
\* MAX_RECORDING_SECS, SPEECH_TIMEOUT_SECS, PADDING_DURATION_MS and the
\* 2 s added to the wait_for timeout, scaled down, in milliseconds
MAX_RECORDING_MS == 180
SPEECH_TIMEOUT_MS == 50
PADDING_DURATION_MS == 120
GRACE_MS == 60
\* the timeout of the join in AudioCaptureVAD.async_shutdown (2.0 s), scaled
SHUTDOWN_JOIN_MS == 60
\* async_shutdown is invoked no later than during this capture of the run
MaxShutdownCaptures == 1
\* calls of _request_with_retries over a run of SpecRetry
MaxRequests == 3
\* calls of process_audio over a run of SpecProcess
MaxProcessCalls == 3
\* devices PyAudio reports
MaxDevices == 2
\* triggers the detector schedules over a run, and how many may be in flight
MaxTriggers == 3
MaxPending == 2
\* frames the audio callback produces over a run of SpecWake
MaxWakeFrames == 5
\* frames the audio callback produces over a run of SpecListen
MaxListenFrames == 2
\* capacity of the detection window (int(DETECTION_WINDOW * RATE / CHUNK) = 25)
MaxBufferLength == 3
\* triggers the detector schedules over a run of SpecLive
MaxLiveTriggers == 2
\* calls of play_response
MaxPlayCalls == 3

IDLE == "IDLE_LISTENING_FOR_WAKE_WORD"
CAPTURING == "CAPTURING_COMMAND"
PROCESSING == "PROCESSING_WITH_GEMINI"
RESPONDING == "RESPONDING"

\* values of the main loop's locals audio_data and response
Unbound == <<"unbound">>
NoneVal == <<"None">>
Path(n) == <<"path", n>>

\* scores of predict and sensitivities, in tenths: for the sensitivity 5 a
\* score below it, the score equal to it and a score above it
Scores == {2, 5, 7}
Sensitivities == {2, 5}

RingMaxLen == PADDING_DURATION_MS \div CHUNK_DURATION_MS
CaptureTimeoutMs == MAX_RECORDING_MS + GRACE_MS

(* ---------------- strings ---------------- *)
\* a string is the sequence of its characters
UpperCase == {"A", "B", "C", "D", "E", "F", "G", "H", "I", "J", "K", "L", "M", "N", "O", "P", "Q", "R", "S", "T", "U", "V", "W", "X", "Y", "Z"}

\* str.lower() on one character
LowerChar(c) ==
    CASE c = "A" -> "a"
      [] c = "B" -> "b"
      [] c = "C" -> "c"
      [] c = "D" -> "d"
      [] c = "E" -> "e"
      [] c = "F" -> "f"
      [] c = "G" -> "g"
      [] c = "H" -> "h"
      [] c = "I" -> "i"
      [] c = "J" -> "j"
      [] c = "K" -> "k"
      [] c = "L" -> "l"
      [] c = "M" -> "m"
      [] c = "N" -> "n"
      [] c = "O" -> "o"
      [] c = "P" -> "p"
      [] c = "Q" -> "q"
      [] c = "R" -> "r"
      [] c = "S" -> "s"
      [] c = "T" -> "t"
      [] c = "U" -> "u"
      [] c = "V" -> "v"
      [] c = "W" -> "w"
      [] c = "X" -> "x"
      [] c = "Y" -> "y"
      [] c = "Z" -> "z"
      [] OTHER -> c

\* str.lower()
Lower(s) == [i \in 1..Len(s) |-> LowerChar(s[i])]

\* the characters str.strip() removes
Whitespace == {" ", "\t", "\n"}

RECURSIVE LStrip(_)
LStrip(s) == IF s # <<>> /\ Head(s) \in Whitespace THEN LStrip(Tail(s)) ELSE s

RECURSIVE RStrip(_)
RStrip(s) ==
    IF s # <<>> /\ s[Len(s)] \in Whitespace THEN RStrip(SubSeq(s, 1, Len(s) - 1)) ELSE s

\* str.strip()
Strip(s) == RStrip(LStrip(s))

\* needle in hay
Contains(hay, needle) ==
    \E i \in 0..(Len(hay) - Len(needle)) : SubSeq(hay, i + 1, i + Len(needle)) = needle

\* const.py 15
DEFAULT_WAKE_WORD == <<"h", "e", "y", " ", "c", "o", "m", "p", "u", "t", "e", "r">>

\* wake_word_handler.py 52-61: self._wake_word_mapping
WakeWordKeys == {
    <<"a", "l", "e", "x", "a">>,
    <<"h", "e", "y", " ", "c", "o", "m", "p", "u", "t", "e", "r">>,
    <<"o", "k", " ", "g", "o", "o", "g", "l", "e">>,
    <<"h", "e", "y", " ", "g", "o", "o", "g", "l", "e">>,
    <<"h", "e", "y", " ", "j", "a", "r", "v", "i", "s">>,
    <<"j", "a", "r", "v", "i", "s">>,
    <<"h", "e", "y", " ", "s", "n", "a", "p", "d", "r", "a", "g", "o", "n">>,
    <<"c", "o", "m", "p", "u", "t", "e", "r">>}

WakeWordMapping(k) ==
    CASE k = <<"a", "l", "e", "x", "a">> -> "alexa"
      [] k = <<"h", "e", "y", " ", "c", "o", "m", "p", "u", "t", "e", "r">> -> "hey_computer"
      [] k = <<"o", "k", " ", "g", "o", "o", "g", "l", "e">> -> "ok_google"
      [] k = <<"h", "e", "y", " ", "g", "o", "o", "g", "l", "e">> -> "hey_google"
      [] k = <<"h", "e", "y", " ", "j", "a", "r", "v", "i", "s">> -> "jarvis"
      [] k = <<"j", "a", "r", "v", "i", "s">> -> "jarvis"
      [] k = <<"h", "e", "y", " ", "s", "n", "a", "p", "d", "r", "a", "g", "o", "n">> -> "snapdragon"
      [] k = <<"c", "o", "m", "p", "u", "t", "e", "r">> -> "computer"

\* line 103
DEFAULT_MODEL == "hey_computer"

\* wake words a user configures: the default, one that is in the mapping
\* once normalized, one that is not in the mapping
WakeWords == {
    DEFAULT_WAKE_WORD,
    <<" ", "J", "a", "r", "v", "i", "s", " ">>,
    <<"h", "e", "y", " ", "m", "y", "c", "r", "o", "f", "t">>}

\* line 93
Normalized(w) == Strip(Lower(w))

\* line 95
InMapping(w) == Normalized(w) \in WakeWordKeys

\* lines 90-103: the value returned
GetModelName(w) ==
    IF InMapping(w) THEN WakeWordMapping(Normalized(w)) ELSE DEFAULT_MODEL

\* lines 95-102: the warnings logged once a call has been made
FallbackLogs(w, n) == IF InMapping(w) THEN n ELSE n + 1

VARIABLES
    \* HomeVoiceConnect
    ipc,             \* progress of async_initialize
    current_state,   \* self._current_state
    running,         \* self._running
    pc,              \* where _main_loop is
    timer,           \* tenths of a second left of the sleep the loop is in
    audio_data,      \* local of _main_loop
    response,        \* local of _main_loop
    processed,       \* the argument of the process_audio call in flight or last made
    n_captures,      \* capture_audio invocations
    n_delivered,     \* trigger callbacks run on the event loop
    n_accepted,      \* of these, the ones that found the state IdleListening
    \* WakeWordHandler
    wake_running,    \* self._running of the handler (its thread is alive)
    callback,        \* self._callback is set
    sensitivity,     \* self.sensitivity, in tenths
    audio_queue,     \* self._audio_queue
    buffer,          \* local of _listen_for_wake_word
    wake_frames,     \* frames the audio callback has produced
    last_score,      \* score of the frame last scored (-1: none, or scoring failed)
    fired,           \* line 166 was true for the frame last consumed
    emitted,         \* detected-events scheduled for the frame last consumed
    n_scheduled,     \* run_coroutine_threadsafe calls so far
    pending,         \* scheduled _async_trigger_callback coroutines not yet run
    \* AudioCaptureVAD
    recording,       \* self._recording
    tpc,             \* where the capture thread is
    event_set,       \* recording_event
    file_size,       \* size of the temporary file of the capture
    file_frames,     \* frames written to it
    now,             \* ms since capture_audio was called
    start_time,      \* local of _capture_with_vad
    frames_read,     \* frames read by this capture
    triggered,       \* local
    ring_buffer,     \* local, <<frame, is_speech>> pairs
    voiced_frames,   \* local
    num_silent_chunks, \* local
    is_speech,       \* local: the verdict of line 196 on the frame last read
    trigger_frame,   \* number of the frame at which the segmenter triggered (0: not yet)
    trigger_time,    \* value of now when the segmenter triggered (0: not yet)
    last_frame_at,   \* value of now when line 230 was last evaluated
    end_kind,        \* how the frame loop ended (the debug line logged)
    rets_normal,     \* return values capture_audio gave after a normal end
    rets_forced,     \* return values capture_audio gave after a forced end
    \* the audio devices
    wake_stream_open, \* the stream of the detector is open (its self._stream)
    stream,          \* self._stream of AudioCaptureVAD: "none", "open", "closed"
    p_alive,         \* self._p of AudioCaptureVAD is a live PyAudio instance
    \* a second caller of capture_audio
    reentrant_ret,   \* what its call returned
    \* HomeVoiceConnect.async_shutdown
    spc,             \* where async_shutdown is
    cancelled_at,    \* the await at which the main loop task was cancelled
    join_deadline,   \* value of now at which the join of line 73 gives up
    \* GeminiLiveClient._request_with_retries
    rpc,             \* where the call of the helper is
    attempt,         \* the loop variable of line 217
    backoff_left,    \* seconds left of the sleep of line 225
    delays,          \* the sleeps of this call, in seconds
    outcomes,        \* what the attempts of this call did
    n_requests,      \* calls of the helper so far
    \* GeminiLiveClient.process_audio
    ppc,             \* where the call of process_audio is
    pfile,           \* the file at audio_file_path: "missing", "empty", "content"
    presult,         \* what the call returned
    live_exc,        \* the exception that ended the live attempt ("none": none)
    fallback_exc,    \* the exception that ended the fallback ("none": none)
    n_process,       \* calls of process_audio so far
    \* the input device
    devices,         \* what PyAudio reports: <<name, maxInputChannels>> per index
    input_device,    \* self.input_device of AudioCaptureVAD
    device_index,    \* local of AudioCaptureVAD.async_initialize
    \* the wake word
    wake_word,       \* self.wake_word of the handler
    fallback_logs,   \* warnings of line 99 logged so far
    taken_in,        \* the orchestrator state in which the loop last took a chunk
    \* the file system
    temp_files,      \* temporary files of captures that exist
    \* ResponseHandler.play_response
    play_pc,         \* where the call of play_response is
    play_arg,        \* its argument response
    tts_calls,       \* calls of the TTS service made by this call
    audio_calls,     \* calls of _play_audio made by this call
    n_plays          \* calls of play_response so far

orchVars == <<ipc, current_state, running, pc, timer, audio_data, response,
              processed, n_captures, n_delivered, n_accepted>>
wakeVars == <<wake_running, callback, sensitivity, audio_queue, buffer,
              wake_frames, last_score, fired, emitted, n_scheduled, pending>>
threadVars == <<tpc, event_set, file_size, file_frames, now, start_time,
                frames_read, triggered, ring_buffer, voiced_frames,
                num_silent_chunks, is_speech, trigger_frame, trigger_time,
                last_frame_at, end_kind>>
capVars == <<recording, threadVars, rets_normal, rets_forced>>
devVars == <<wake_stream_open, stream, p_alive>>
shutVars == <<reentrant_ret, spc, cancelled_at, join_deadline>>
retryVars == <<rpc, attempt, backoff_left, delays, outcomes, n_requests>>
procVars == <<ppc, pfile, presult, live_exc, fallback_exc, n_process>>
initVars == <<devices, input_device, device_index>>
logVars == <<wake_word, fallback_logs, taken_in>>
fileVars == <<temp_files>>
playVars == <<play_pc, play_arg, tts_calls, audio_calls, n_plays>>
extVars == <<initVars, logVars, fileVars, playVars>>
auxVars == <<shutVars, retryVars, procVars, extVars>>
vars == <<orchVars, wakeVars, capVars, devVars, auxVars>>

\* detector state the trigger path does not touch
wakeLocal == <<sensitivity, audio_queue, buffer, wake_frames, last_score,
               fired, emitted>>

InitCommon ==
    /\ ipc = "constructed"
    /\ current_state = IDLE
    /\ running = FALSE
    /\ pc = "not_started"
    /\ timer = 0
    /\ audio_data = Unbound
    /\ response = Unbound
    /\ processed = Unbound
    /\ n_captures = 0
    /\ n_delivered = 0
    /\ n_accepted = 0
    /\ wake_running = FALSE
    /\ callback = FALSE
    /\ audio_queue = <<>>
    /\ buffer = <<>>
    /\ wake_frames = 0
    /\ last_score = -1
    /\ fired = FALSE
    /\ emitted = 0
    /\ n_scheduled = 0
    /\ pending = 0
    /\ recording = FALSE
    /\ tpc = "none"
    /\ event_set = FALSE
    /\ file_size = 0
    /\ file_frames = <<>>
    /\ now = 0
    /\ start_time = 0
    /\ frames_read = 0
    /\ triggered = FALSE
    /\ ring_buffer = <<>>
    /\ voiced_frames = <<>>
    /\ num_silent_chunks = 0
    /\ is_speech = FALSE
    /\ trigger_frame = 0
    /\ trigger_time = 0
    /\ last_frame_at = 0
    /\ end_kind = "none"
    /\ rets_normal = {}
    /\ rets_forced = {}
    /\ wake_stream_open = FALSE
    /\ stream = "none"
    /\ p_alive = FALSE
    /\ reentrant_ret = Unbound
    /\ spc = "none"
    /\ cancelled_at = "none"
    /\ join_deadline = 0
    /\ rpc = "idle"
    /\ attempt = 0
    /\ backoff_left = 0
    /\ delays = <<>>
    /\ outcomes = <<>>
    /\ n_requests = 0
    /\ ppc = "idle"
    /\ pfile = "missing"
    /\ presult = [none |-> TRUE]
    /\ live_exc = "none"
    /\ fallback_exc = "none"
    /\ n_process = 0
    /\ device_index = Unbound
    /\ fallback_logs = 0
    /\ taken_in = "none"
    /\ temp_files = {}
    /\ play_pc = "idle"
    /\ play_arg = [is_none |-> TRUE, dict |-> <<>>]
    /\ tts_calls = 0
    /\ audio_calls = 0
    /\ n_plays = 0

Init ==
    /\ InitCommon
    /\ sensitivity = DEFAULT_WAKE_WORD_SENSITIVITY
    /\ wake_word = DEFAULT_WAKE_WORD
    /\ devices = <<>>
    /\ input_device = <<>>

InitWake ==
    /\ InitCommon
    /\ sensitivity \in Sensitivities
    /\ wake_word \in WakeWords
    /\ devices = <<>>
    /\ input_device = <<>>

(* ---------------- HomeVoiceConnect.async_initialize ---------------- *)

\* line 165: the handler's async_initialize builds the detector (105-129,
\* with the lookup of line 114) and starts the detection thread
WakeWordInitialize ==
    /\ ipc = "constructed"
    /\ ipc' = "wake_started"
    /\ wake_running' = TRUE
    /\ UNCHANGED <<current_state, running, pc, timer, audio_data, response,
                   processed, n_captures, n_delivered, n_accepted>>
    /\ UNCHANGED <<callback, wakeLocal, n_scheduled, pending>>
    /\ UNCHANGED capVars
    /\ wake_stream_open' = TRUE
    /\ UNCHANGED <<stream, p_alive>>
    /\ fallback_logs' = FallbackLogs(wake_word, fallback_logs)
    /\ UNCHANGED <<wake_word, taken_in>>
    /\ UNCHANGED <<shutVars, retryVars, procVars, initVars, fileVars, playVars>>

\* lines 166-175: the other components, the callback, the loop task
FinishInitialize ==
    /\ ipc = "wake_started"
    /\ ipc' = "initialized"
    /\ callback' = TRUE
    /\ running' = TRUE
    /\ pc' = "created"
    /\ UNCHANGED <<current_state, timer, audio_data, response, processed,
                   n_captures, n_delivered, n_accepted>>
    /\ UNCHANGED <<wake_running, wakeLocal, n_scheduled, pending>>
    /\ UNCHANGED capVars
    /\ p_alive' = TRUE
    /\ UNCHANGED <<wake_stream_open, stream>>
    /\ UNCHANGED auxVars

(* ---------------- the input device ---------------- *)

\* values of device_index
Index(i) == <<"index", i>>

\* names PyAudio reports, and names a user configures
DeviceNames == {
    <<"M", "i", "c">>,
    <<"U", "S", "B", " ", "M", "i", "c">>,
    <<"H", "D", "M", "I">>}
ConfiguredNames == {
    <<"m", "i", "c">>,
    <<"u", "s", "b">>,
    <<"U", "S", "B", " ", "M", "i", "c">>,
    <<"l", "i", "n", "e">>,
    <<>>}

\* the device table of PyAudio: name and maxInputChannels per index
DeviceTables ==
    UNION {[1..n -> DeviceNames \X {0, 1}] : n \in 0..MaxDevices}

\* audio_capture_vad.py 88-91 (and 152-155): the test made on one device
DeviceMatches(dev, name) ==
    /\ dev[2] > 0
    /\ Contains(Lower(dev[1]), Lower(name))

\* the positions of the table that pass the test
MatchingDevices(devs, name) == {i \in DOMAIN devs : DeviceMatches(devs[i], name)}

\* audio_capture_vad.py 84-93: the index (from 0) of the first device that
\* passes the test, None when there is none
FindDeviceIndex(devs, name) ==
    LET m == MatchingDevices(devs, name)
    IN  IF m = {} THEN NoneVal
        ELSE Index((CHOOSE i \in m : \A j \in m : i <= j) - 1)

InitDevices ==
    /\ InitCommon
    /\ sensitivity = DEFAULT_WAKE_WORD_SENSITIVITY
    /\ wake_word = DEFAULT_WAKE_WORD
    /\ devices \in DeviceTables
    /\ input_device \in ConfiguredNames

\* wake_word_handler.py 65 with 105-129: building the detector raises (no
\* audio device, the model cannot be loaded); the stream may have been opened
WakeWordInitializeFails ==
    /\ ipc = "constructed"
    /\ ipc' = "failed"
    /\ \E opened \in BOOLEAN : wake_stream_open' = opened
    /\ UNCHANGED <<current_state, running, pc, timer, audio_data, response,
                   processed, n_captures, n_delivered, n_accepted>>
    /\ UNCHANGED wakeVars
    /\ UNCHANGED capVars
    /\ UNCHANGED <<stream, p_alive>>
    /\ UNCHANGED auxVars

\* __init__.py 166 with audio_capture_vad.py 55-67: the lookup is made; the
\* call returns normally whether a device was found or not
CaptureInitialize ==
    /\ ipc = "wake_started"
    /\ ipc' = "capture_done"
    /\ p_alive' = TRUE
    /\ device_index' = FindDeviceIndex(devices, input_device)
    /\ UNCHANGED <<devices, input_device>>
    /\ UNCHANGED <<logVars, fileVars, playVars>>
    /\ UNCHANGED <<shutVars, retryVars, procVars>>
    /\ UNCHANGED <<current_state, running, pc, timer, audio_data, response,
                   processed, n_captures, n_delivered, n_accepted>>
    /\ UNCHANGED wakeVars
    /\ UNCHANGED capVars
    /\ UNCHANGED <<wake_stream_open, stream>>

\* __init__.py 167 with gemini_live_client.py 38-55: the key is accepted, or
\* the test request raises and line 55 raises again
GeminiInitialize ==
    /\ ipc = "capture_done"
    /\ \E valid \in BOOLEAN : ipc' = IF valid THEN "gemini_done" ELSE "failed"
    /\ UNCHANGED <<current_state, running, pc, timer, audio_data, response,
                   processed, n_captures, n_delivered, n_accepted>>
    /\ UNCHANGED wakeVars
    /\ UNCHANGED capVars
    /\ UNCHANGED devVars
    /\ UNCHANGED auxVars

\* __init__.py 168 with response_handler.py 36-48: the output device and the
\* TTS service exist, or ValueError is raised
ResponseInitialize ==
    /\ ipc = "gemini_done"
    /\ \E ok \in BOOLEAN : ipc' = IF ok THEN "response_done" ELSE "failed"
    /\ UNCHANGED <<current_state, running, pc, timer, audio_data, response,
                   processed, n_captures, n_delivered, n_accepted>>
    /\ UNCHANGED wakeVars
    /\ UNCHANGED capVars
    /\ UNCHANGED devVars
    /\ UNCHANGED auxVars

\* __init__.py 171-177: the callback, the flag, the loop task
InitializeFinish ==
    /\ ipc = "response_done"
    /\ ipc' = "initialized"
    /\ callback' = TRUE
    /\ running' = TRUE
    /\ pc' = "created"
    /\ UNCHANGED <<current_state, timer, audio_data, response, processed,
                   n_captures, n_delivered, n_accepted>>
    /\ UNCHANGED <<wake_running, wakeLocal, n_scheduled, pending>>
    /\ UNCHANGED capVars
    /\ UNCHANGED devVars
    /\ UNCHANGED auxVars

NextInit ==
    \/ WakeWordInitialize
    \/ WakeWordInitializeFails
    \/ CaptureInitialize
    \/ GeminiInitialize
    \/ ResponseInitialize
    \/ InitializeFinish

SpecInit == InitDevices /\ [][NextInit]_vars

(* ---------------- the trigger path ---------------- *)

\* wake_word_handler.py 172-177: one coroutine handed to the event loop
ScheduleCallback ==
    /\ pending' = pending + 1
    /\ n_scheduled' = n_scheduled + 1

\* the detection thread found a qualifying frame (SpecWake models the frames)
ScheduleTrigger ==
    /\ wake_running
    /\ callback
    /\ n_scheduled < MaxTriggers
    /\ pending < MaxPending
    /\ ScheduleCallback
    /\ UNCHANGED <<wake_running, callback, wakeLocal>>
    /\ UNCHANGED orchVars
    /\ UNCHANGED capVars
    /\ UNCHANGED devVars
    /\ UNCHANGED auxVars

\* the main loop is suspended at one of its awaits (lines 203, 207, 218, 224, 235)
AtAwait ==
    pc \in {"idle_sleep", "capture_wait", "process_wait", "respond_wait", "cooldown"}

\* the event loop can run a callback: the main loop is suspended or cancelled,
\* and async_shutdown is not inside the blocking join of audio_capture_vad.py 73
EventLoopFree ==
    /\ AtAwait \/ pc = "cancelled"
    /\ spc # "capture_join"

\* __init__.py 237-242: the state the callback writes
WakeWordDetected(s) == CAPTURING

\* wake_word_handler.py 189-192 and __init__.py 237-242
DeliverTrigger ==
    /\ pending > 0
    /\ EventLoopFree
    /\ pending' = pending - 1
    /\ n_delivered' = n_delivered + 1
    /\ IF callback
         THEN /\ current_state' = WakeWordDetected(current_state)
              /\ n_accepted' = IF current_state = IDLE THEN n_accepted + 1 ELSE n_accepted
         ELSE UNCHANGED <<current_state, n_accepted>>
    /\ UNCHANGED <<ipc, running, pc, timer, audio_data, response, processed, n_captures>>
    /\ UNCHANGED <<wake_running, callback, wakeLocal, n_scheduled>>
    /\ UNCHANGED capVars
    /\ UNCHANGED devVars
    /\ UNCHANGED auxVars

(* ---------------- HomeVoiceConnect._main_loop ---------------- *)

\* the task created at line 175 runs for the first time
MainLoopStart ==
    /\ pc = "created"
    /\ pc' = "eval"
    /\ UNCHANGED <<ipc, current_state, running, timer, audio_data, response,
                   processed, n_captures, n_delivered, n_accepted>>
    /\ UNCHANGED wakeVars
    /\ UNCHANGED capVars
    /\ UNCHANGED devVars
    /\ UNCHANGED auxVars

\* lines 200-203
StartIdleSleep ==
    /\ pc = "eval"
    /\ running
    /\ current_state = IDLE
    /\ pc' = "idle_sleep"
    /\ timer' = IDLE_POLL_TENTHS
    /\ UNCHANGED <<ipc, current_state, running, audio_data, response,
                   processed, n_captures, n_delivered, n_accepted>>
    /\ UNCHANGED wakeVars
    /\ UNCHANGED capVars
    /\ UNCHANGED devVars
    /\ UNCHANGED auxVars

\* a tenth of a second passes while the loop sleeps
Tick ==
    /\ pc \in {"idle_sleep", "cooldown"}
    /\ timer > 0
    /\ timer' = timer - 1
    /\ UNCHANGED <<ipc, current_state, running, pc, audio_data, response,
                   processed, n_captures, n_delivered, n_accepted>>
    /\ UNCHANGED wakeVars
    /\ UNCHANGED capVars
    /\ UNCHANGED devVars
    /\ UNCHANGED auxVars

\* asyncio.sleep returns (lines 203 and 235): back to the while test
SleepDone ==
    /\ pc \in {"idle_sleep", "cooldown"}
    /\ timer = 0
    /\ pc' = "eval"
    /\ UNCHANGED <<ipc, current_state, running, timer, audio_data, response,
                   processed, n_captures, n_delivered, n_accepted>>
    /\ UNCHANGED wakeVars
    /\ UNCHANGED capVars
    /\ UNCHANGED devVars
    /\ UNCHANGED auxVars

\* the handler without its sleep: the loop goes straight back to the test
ExceptHandlerNoSleep ==
    /\ current_state' = IDLE
    /\ pc' = "eval"
    /\ timer' = 0

\* lines 232-235: the handler of the try block
ExceptHandler ==
    /\ current_state' = IDLE
    /\ pc' = "cooldown"
    /\ timer' = COOLDOWN_TENTHS
(* ---------------- AudioCaptureVAD ---------------- *)

\* lines 129-131 and 134-137: the file exists since line 107 created it
CaptureResult(size, n) == IF size > 0 THEN Path(n) ELSE NoneVal

\* the else branch leaves the state as it is: the capture is tried again
AfterCaptureRetry(ret) == IF ret # NoneVal THEN PROCESSING ELSE CAPTURING

\* lines 208-214 of __init__.py
AfterCapture(ret) == IF ret # NoneVal THEN PROCESSING ELSE IDLE

\* capture_audio returns ret to line 207 and the loop takes its branch
ReturnToLoop(ret) ==
    /\ audio_data' = ret
    /\ current_state' = AfterCapture(ret)
    /\ pc' = "eval"
    /\ rets_normal' = IF end_kind = "normal" THEN rets_normal \cup {ret[1]} ELSE rets_normal
    /\ rets_forced' = IF end_kind = "forced" THEN rets_forced \cup {ret[1]} ELSE rets_forced

\* line 207 with capture_audio lines 102-119; line 107 creates the temporary
\* file of the capture (delete=False), which no line of the program removes
CaptureStart ==
    /\ pc = "eval"
    /\ running
    /\ current_state = CAPTURING
    /\ n_captures' = n_captures + 1
    /\ IF recording
         THEN /\ audio_data' = NoneVal
              /\ current_state' = AfterCapture(NoneVal)
              /\ pc' = "eval"
              /\ UNCHANGED <<recording, threadVars, temp_files>>
         ELSE /\ pc' = "capture_wait"
              /\ temp_files' = temp_files \cup {Path(n_captures + 1)}
              /\ recording' = TRUE
              /\ event_set' = FALSE
              /\ file_size' = 0
              /\ file_frames' = <<>>
              /\ now' = 0
              /\ tpc' = "open"
              /\ end_kind' = "none"
              /\ UNCHANGED <<audio_data, current_state, start_time, frames_read,
                             triggered, ring_buffer, voiced_frames, num_silent_chunks,
                             is_speech, trigger_frame, trigger_time, last_frame_at>>
    /\ UNCHANGED <<ipc, running, timer, response, processed, n_delivered, n_accepted>>
    /\ UNCHANGED <<rets_normal, rets_forced>>
    /\ UNCHANGED wakeVars
    /\ UNCHANGED devVars
    /\ UNCHANGED <<shutVars, retryVars, procVars, initVars, logVars, playVars>>

\* lines 107-119 raise (no temporary file, no thread): caught at line 232
CaptureRaises ==
    /\ pc = "eval"
    /\ running
    /\ current_state = CAPTURING
    /\ ~recording
    /\ n_captures' = n_captures + 1
    /\ ExceptHandler
    /\ UNCHANGED <<ipc, running, audio_data, response, processed, n_delivered, n_accepted>>
    /\ UNCHANGED wakeVars
    /\ UNCHANGED capVars
    /\ UNCHANGED devVars
    /\ UNCHANGED auxVars

\* line 124 returns: the event is set
CaptureReturn ==
    /\ pc = "capture_wait"
    /\ event_set
    /\ ReturnToLoop(CaptureResult(file_size, n_captures))
    /\ now' = 0
    /\ UNCHANGED <<ipc, running, timer, response, processed, n_captures,
                   n_delivered, n_accepted>>
    /\ UNCHANGED <<recording, tpc, event_set, file_size, file_frames, start_time,
                   frames_read, triggered, ring_buffer, voiced_frames,
                   num_silent_chunks, is_speech, trigger_frame, trigger_time,
                   last_frame_at, end_kind>>
    /\ UNCHANGED wakeVars
    /\ UNCHANGED devVars
    /\ UNCHANGED auxVars

\* lines 125-127: wait_for times out
CaptureTimeout ==
    /\ pc = "capture_wait"
    /\ ~event_set
    /\ now >= CaptureTimeoutMs
    /\ recording' = FALSE
    /\ pc' = "capture_join"
    /\ UNCHANGED <<ipc, current_state, running, timer, audio_data, response,
                   processed, n_captures, n_delivered, n_accepted>>
    /\ UNCHANGED <<threadVars, rets_normal, rets_forced>>
    /\ UNCHANGED wakeVars
    /\ UNCHANGED devVars
    /\ UNCHANGED auxVars

\* a join that returns without waiting for the thread
JoinReturnsAtOnce == TRUE

\* line 128: thread.join() without a timeout returns when the thread has ended
JoinReturns == tpc = "done"

\* lines 128-131: join returns, the thread has ended
CaptureJoined ==
    /\ pc = "capture_join"
    /\ JoinReturns
    /\ ReturnToLoop(CaptureResult(file_size, n_captures))
    /\ now' = 0
    /\ UNCHANGED <<ipc, running, timer, response, processed, n_captures,
                   n_delivered, n_accepted>>
    /\ UNCHANGED <<recording, tpc, event_set, file_size, file_frames, start_time,
                   frames_read, triggered, ring_buffer, voiced_frames,
                   num_silent_chunks, is_speech, trigger_frame, trigger_time,
                   last_frame_at, end_kind>>
    /\ UNCHANGED wakeVars
    /\ UNCHANGED devVars
    /\ UNCHANGED auxVars

(* ---------------- AudioCaptureVAD._capture_with_vad ---------------- *)

\* while wait_for is pending, its timer fires before more time passes
TimeMayPass == pc = "capture_wait" => now < CaptureTimeoutMs

\* the function returns: its locals are gone
LocalsGone ==
    /\ voiced_frames' = <<>>
    /\ triggered' = FALSE
    /\ ring_buffer' = <<>>
    /\ num_silent_chunks' = 0
    /\ frames_read' = 0
    /\ is_speech' = FALSE
    /\ trigger_frame' = 0
    /\ start_time' = 0
    /\ trigger_time' = 0
    /\ last_frame_at' = 0

\* lines 249-251
ThreadFinally ==
    /\ recording' = FALSE
    /\ event_set' = TRUE
    /\ tpc' = "done"
    /\ LocalsGone

\* a segmenter that starts in the triggered state
SegmenterStartsTriggered ==
    /\ voiced_frames' = <<>>
    /\ triggered' = TRUE
    /\ ring_buffer' = <<>>
    /\ num_silent_chunks' = 0

\* lines 180-188: the locals of the segmenter, assigned by every run of
\* _capture_with_vad before its loop
SegmenterStart ==
    /\ voiced_frames' = <<>>
    /\ triggered' = FALSE
    /\ ring_buffer' = <<>>
    /\ num_silent_chunks' = 0

\* lines 148-188: device lookup, stream, wave file, the locals; on a PyAudio
\* instance async_shutdown has terminated the lookup raises (ThreadError)
ThreadOpen ==
    /\ tpc = "open"
    /\ p_alive
    /\ \E found \in BOOLEAN :
         IF found
           THEN /\ SegmenterStart
                /\ frames_read' = 0
                /\ is_speech' = FALSE
                /\ trigger_frame' = 0
                /\ start_time' = now
                /\ trigger_time' = 0
                /\ last_frame_at' = now
                /\ tpc' = IF recording THEN "read" ELSE "write"
                /\ end_kind' = IF recording THEN "none" ELSE "stopped"
                /\ stream' = "open"
                /\ UNCHANGED <<recording, event_set>>
           ELSE /\ ThreadFinally
                /\ end_kind' = "nodevice"
                /\ UNCHANGED stream
    /\ UNCHANGED <<file_size, file_frames, now, rets_normal, rets_forced>>
    /\ UNCHANGED orchVars
    /\ UNCHANGED wakeVars
    /\ UNCHANGED <<wake_stream_open, p_alive>>
    /\ UNCHANGED auxVars

\* the stream delivers nothing for the time of one chunk
Stall ==
    /\ tpc \in {"open", "read"}
    /\ pc = "capture_wait"
    /\ now < CaptureTimeoutMs
    /\ now' = now + CHUNK_DURATION_MS
    /\ UNCHANGED <<tpc, event_set, file_size, file_frames, start_time, frames_read,
                   triggered, ring_buffer, voiced_frames, num_silent_chunks,
                   is_speech, trigger_frame, trigger_time, last_frame_at, end_kind>>
    /\ UNCHANGED <<recording, rets_normal, rets_forced>>
    /\ UNCHANGED orchVars
    /\ UNCHANGED wakeVars
    /\ UNCHANGED devVars
    /\ UNCHANGED auxVars

\* a deque without maxlen
RingAppendNoEvict(rb, e) == Append(rb, e)

\* collections.deque(maxlen=...).append
RingAppend(rb, e) ==
    IF RingMaxLen = 0 THEN <<>>
    ELSE IF Len(rb) >= RingMaxLen THEN Append(Tail(rb), e)
    ELSE Append(rb, e)

RECURSIVE NumVoiced(_)
\* line 201
NumVoiced(rb) ==
    IF rb = <<>> THEN 0
    ELSE (IF Head(rb)[2] THEN 1 ELSE 0) + NumVoiced(Tail(rb))

\* exactly half of the capacity is taken as enough
TriggerAtHalf(rb) == 2 * NumVoiced(rb) >= RingMaxLen

\* the comparison is made only once the buffer is full
TriggerWhenFull(rb) == Len(rb) = RingMaxLen /\ 2 * NumVoiced(rb) > RingMaxLen

\* line 204: num_voiced_chunks > 0.5 * ring_buffer.maxlen
TriggerCondition(rb) == 2 * NumVoiced(rb) > RingMaxLen

\* the comparison of line 222 reached one silent frame early
SilenceTimedOutEarly(n) == (n + 1) * CHUNK_DURATION_MS > SPEECH_TIMEOUT_MS

\* the comparison of line 222 reached one silent frame late
SilenceTimedOutLate(n) == (n - 1) * CHUNK_DURATION_MS > SPEECH_TIMEOUT_MS

\* line 222: num_silent_chunks > (SPEECH_TIMEOUT_SECS * 1000) / CHUNK_DURATION_MS
SilenceTimedOut(n) == n * CHUNK_DURATION_MS > SPEECH_TIMEOUT_MS

\* the limit of line 230 counted from the trigger of the segmenter
MaxTimeSinceTrigger(t, start) == trigger_time > 0 /\ t - trigger_time > MAX_RECORDING_MS

\* line 230: time.time() - start_time > MAX_RECORDING_SECS
MaxTimeReached(t, start) == t - start > MAX_RECORDING_MS

\* the buffered frames taken newest first
FramesNewestFirst(rb) == [i \in 1..Len(rb) |-> rb[Len(rb) + 1 - i][1]]

\* lines 209-210
FramesOf(rb) == [i \in 1..Len(rb) |-> rb[i][1]]

\* lines 193-232: one pass of the frame loop, the read of line 193 included
ThreadRead ==
    /\ tpc = "read"
    /\ TimeMayPass
    /\ \E speech \in BOOLEAN :
         LET frame == frames_read + 1
             t == now + CHUNK_DURATION_MS
             rb == RingAppend(ring_buffer, <<frame, speech>>)
             fires == ~triggered /\ TriggerCondition(rb)
             silent == IF triggered
                         THEN (IF speech THEN 0 ELSE num_silent_chunks + 1)
                         ELSE (IF fires THEN 0 ELSE num_silent_chunks)
             normal == triggered /\ ~speech /\ SilenceTimedOut(silent)
             forced == ~normal /\ MaxTimeReached(t, start_time)
         IN  /\ frames_read' = frame
             /\ is_speech' = speech
             /\ trigger_frame' = IF fires THEN frame ELSE trigger_frame
             /\ now' = t
             /\ ring_buffer' = IF triggered THEN ring_buffer
                               ELSE IF fires THEN <<>> ELSE rb
             /\ voiced_frames' = IF triggered THEN Append(voiced_frames, frame)
                                 ELSE IF fires THEN voiced_frames \o FramesOf(rb)
                                 ELSE voiced_frames
             /\ num_silent_chunks' = silent
             /\ triggered' = IF triggered THEN ~normal ELSE fires
             /\ trigger_time' = IF fires THEN t ELSE trigger_time
             /\ last_frame_at' = t
             /\ end_kind' = IF normal THEN "normal"
                            ELSE IF forced THEN "forced"
                            ELSE IF recording THEN "none" ELSE "stopped"
             /\ tpc' = IF normal \/ forced \/ ~recording THEN "write" ELSE "read"
    /\ UNCHANGED <<event_set, file_size, file_frames, start_time>>
    /\ UNCHANGED <<recording, rets_normal, rets_forced>>
    /\ UNCHANGED orchVars
    /\ UNCHANGED wakeVars
    /\ UNCHANGED devVars
    /\ UNCHANGED auxVars

\* lines 246-251: the open or a read raises; the wave file is closed by its
\* destructor, which writes the header, before or after the loop looks
ThreadError ==
    /\ tpc \in {"open", "read"}
    /\ ThreadFinally
    /\ end_kind' = "error"
    /\ file_size' \in (IF tpc = "read" THEN {0, WAV_HEADER_BYTES} ELSE {0})
    /\ UNCHANGED <<file_frames, now>>
    /\ UNCHANGED <<rets_normal, rets_forced>>
    /\ UNCHANGED orchVars
    /\ UNCHANGED wakeVars
    /\ stream' \in (IF tpc = "open" /\ p_alive THEN {stream, "open"} ELSE {stream})
    /\ UNCHANGED <<wake_stream_open, p_alive>>
    /\ UNCHANGED auxVars

\* size of the file after lines 234-239
WavSize(frames) == WAV_HEADER_BYTES + Len(frames) * FRAME_BYTES

\* lines 234-251: the frames are written, the file closed, the event set;
\* line 240 raises on a stream async_shutdown has closed, so line 242 is skipped
ThreadWrite ==
    /\ tpc = "write"
    /\ file_frames' = voiced_frames
    /\ file_size' = WavSize(voiced_frames)
    /\ ThreadFinally
    /\ UNCHANGED <<now, end_kind>>
    /\ UNCHANGED <<rets_normal, rets_forced>>
    /\ UNCHANGED orchVars
    /\ UNCHANGED wakeVars
    /\ stream' = IF stream = "closed" THEN "closed" ELSE "none"
    /\ UNCHANGED <<wake_stream_open, p_alive>>
    /\ UNCHANGED auxVars

(* ---------------- processing and playback ---------------- *)

\* lines 216-218: process_audio is called with the local audio_data
ProcessStart ==
    /\ pc = "eval"
    /\ running
    /\ current_state = PROCESSING
    /\ IF audio_data = Unbound
         THEN /\ ExceptHandler
              /\ UNCHANGED processed
         ELSE /\ processed' = audio_data
              /\ pc' = "process_wait"
              /\ UNCHANGED <<current_state, timer>>
    /\ UNCHANGED <<ipc, running, audio_data, response, n_captures, n_delivered, n_accepted>>
    /\ UNCHANGED wakeVars
    /\ UNCHANGED capVars
    /\ UNCHANGED devVars
    /\ UNCHANGED auxVars

\* line 219 guarded by the state still being the one the call started in
AfterProcessKeep == IF current_state = PROCESSING THEN RESPONDING ELSE current_state

\* line 219
AfterProcess == RESPONDING

\* lines 218-219: process_audio returns an answer or its fallback text
\* (gemini_live_client.py 149-152, 182-196); it raises nothing
ProcessReturn ==
    /\ pc = "process_wait"
    /\ \E r \in {"answer", "fallback"} : response' = <<r>>
    /\ current_state' = AfterProcess
    /\ pc' = "eval"
    /\ UNCHANGED <<ipc, running, timer, audio_data, processed, n_captures,
                   n_delivered, n_accepted>>
    /\ UNCHANGED wakeVars
    /\ UNCHANGED capVars
    /\ UNCHANGED devVars
    /\ UNCHANGED auxVars

\* lines 222-224
RespondStart ==
    /\ pc = "eval"
    /\ running
    /\ current_state = RESPONDING
    /\ IF response = Unbound
         THEN ExceptHandler
         ELSE /\ pc' = "respond_wait"
              /\ UNCHANGED <<current_state, timer>>
    /\ UNCHANGED <<ipc, running, audio_data, response, processed, n_captures,
                   n_delivered, n_accepted>>
    /\ UNCHANGED wakeVars
    /\ UNCHANGED capVars
    /\ UNCHANGED devVars
    /\ UNCHANGED auxVars

\* line 225 leaving the state as it is
AfterRespondStay == current_state

\* line 225
AfterRespond == IDLE

\* lines 224-225: play_response returns, played or not
\* (response_handler.py 73-81 catches what playing raises)
RespondReturn ==
    /\ pc = "respond_wait"
    /\ current_state' = AfterRespond
    /\ pc' = "eval"
    /\ UNCHANGED <<ipc, running, timer, audio_data, response, processed,
                   n_captures, n_delivered, n_accepted>>
    /\ UNCHANGED wakeVars
    /\ UNCHANGED capVars
    /\ UNCHANGED devVars
    /\ UNCHANGED auxVars

Next ==
    \/ WakeWordInitialize
    \/ FinishInitialize
    \/ ScheduleTrigger
    \/ DeliverTrigger
    \/ MainLoopStart
    \/ StartIdleSleep
    \/ Tick
    \/ SleepDone
    \/ CaptureStart
    \/ CaptureRaises
    \/ CaptureReturn
    \/ CaptureTimeout
    \/ CaptureJoined
    \/ ThreadOpen
    \/ Stall
    \/ ThreadRead
    \/ ThreadError
    \/ ThreadWrite
    \/ ProcessStart
    \/ ProcessReturn
    \/ RespondStart
    \/ RespondReturn

Spec == Init /\ [][Next]_vars

(* ---------------- the main loop under fair scheduling ---------------- *)

\* the steps of the main loop task: the event loop runs a task that is ready,
\* a sleep that is over returns, an awaited call that has finished returns
LoopStep ==
    \/ MainLoopStart
    \/ StartIdleSleep
    \/ Tick
    \/ SleepDone
    \/ CaptureStart
    \/ CaptureRaises
    \/ CaptureReturn
    \/ CaptureTimeout
    \/ CaptureJoined
    \/ ProcessStart
    \/ ProcessReturn
    \/ RespondStart
    \/ RespondReturn

\* the steps of the capture thread: the operating system schedules it, and
\* every frame read returns or fails
CaptureThreadStep ==
    \/ ThreadOpen
    \/ ThreadRead
    \/ ThreadError
    \/ ThreadWrite

\* the detector schedules a trigger, up to the triggers of a fair run
LiveTrigger ==
    /\ n_scheduled < MaxLiveTriggers
    /\ ScheduleTrigger

NextLive ==
    \/ WakeWordInitialize
    \/ FinishInitialize
    \/ LiveTrigger
    \/ DeliverTrigger
    \/ LoopStep
    \/ Stall
    \/ CaptureThreadStep

\* the main loop and the capture of Spec with the event loop and the capture
\* thread scheduled fairly
SpecLive ==
    /\ Init
    /\ [][NextLive]_vars
    /\ WF_vars(WakeWordInitialize \/ FinishInitialize)
    /\ WF_vars(LoopStep)
    /\ WF_vars(CaptureThreadStep)

(* ---------------- a second caller of capture_audio ---------------- *)

\* audio_capture_vad.py 102-104: the value returned while a capture is active
BusyResult == NoneVal

\* another coroutine calls capture_audio while the call of the main loop is
\* suspended at line 124 and its capture is recording: lines 102-104 return
\* at once, before the temporary file and the thread of lines 107-119
ReentrantCapture ==
    /\ pc = "capture_wait"
    /\ recording
    /\ reentrant_ret' = BusyResult
    /\ UNCHANGED <<spc, cancelled_at, join_deadline>>
    /\ UNCHANGED retryVars
    /\ UNCHANGED procVars
    /\ UNCHANGED extVars
    /\ UNCHANGED orchVars
    /\ UNCHANGED wakeVars
    /\ UNCHANGED capVars
    /\ UNCHANGED devVars

NextReentrant ==
    \/ Next
    \/ ReentrantCapture

SpecReentrant == Init /\ [][NextReentrant]_vars

(* ---------------- a frame read that never returns ---------------- *)

\* how long the model lets the clock run while a read hangs
HangHorizonMs == CaptureTimeoutMs + 3 * CHUNK_DURATION_MS

\* line 193: stream.read blocks and does not come back
ReadHangs ==
    /\ tpc = "read"
    /\ tpc' = "hung"
    /\ UNCHANGED <<event_set, file_size, file_frames, now, start_time, frames_read,
                   triggered, ring_buffer, voiced_frames, num_silent_chunks,
                   is_speech, trigger_frame, trigger_time, last_frame_at, end_kind>>
    /\ UNCHANGED <<recording, rets_normal, rets_forced>>
    /\ UNCHANGED orchVars
    /\ UNCHANGED wakeVars
    /\ UNCHANGED devVars
    /\ UNCHANGED auxVars

\* time passes with the thread inside the read: capture_audio is waiting at
\* line 124 (until its timer fires) or inside the join of line 128
HangWait ==
    /\ tpc = "hung"
    /\ pc \in {"capture_wait", "capture_join"}
    /\ TimeMayPass
    /\ now < HangHorizonMs
    /\ now' = now + CHUNK_DURATION_MS
    /\ UNCHANGED <<tpc, event_set, file_size, file_frames, start_time, frames_read,
                   triggered, ring_buffer, voiced_frames, num_silent_chunks,
                   is_speech, trigger_frame, trigger_time, last_frame_at, end_kind>>
    /\ UNCHANGED <<recording, rets_normal, rets_forced>>
    /\ UNCHANGED orchVars
    /\ UNCHANGED wakeVars
    /\ UNCHANGED devVars
    /\ UNCHANGED auxVars

NextHang ==
    \/ Next
    \/ ReadHangs
    \/ HangWait

SpecHang == Init /\ [][NextHang]_vars

(* ---------------- HomeVoiceConnect.async_shutdown ---------------- *)

\* the step async_shutdown goes to with the wake-word handler left out
ShutdownAfterCancelSkipWake == "capture"

\* __init__.py 189: what follows the cancellation of the main loop task
ShutdownAfterCancel == "wake"

\* a task that is left where it is
TaskNotCancelled(p) == p

\* __init__.py 183-187: cancel() and the await of the task: CancelledError is
\* raised at the await the task is suspended in, no handler of the loop
\* catches it (line 232 catches Exception), and the task ends
TaskCancelled(p) == "cancelled"

\* __init__.py 181-187: _running is cleared, the main loop task is cancelled
\* at the await it is suspended in (or before its first run) and awaited.  A
\* capture_audio call in flight ends with the task; its thread runs on.
ShutdownCancelLoop ==
    /\ ipc = "initialized"
    /\ spc = "none"
    /\ AtAwait \/ pc = "created"
    /\ n_captures <= MaxShutdownCaptures
    /\ running' = FALSE
    /\ cancelled_at' = pc
    /\ pc' = TaskCancelled(pc)
    /\ spc' = ShutdownAfterCancel
    /\ UNCHANGED <<ipc, current_state, timer, audio_data, response, processed,
                   n_captures, n_delivered, n_accepted>>
    /\ UNCHANGED <<reentrant_ret, join_deadline>>
    /\ UNCHANGED retryVars
    /\ UNCHANGED procVars
    /\ UNCHANGED extVars
    /\ UNCHANGED wakeVars
    /\ UNCHANGED capVars
    /\ UNCHANGED devVars

\* __init__.py 189 with wake_word_handler.py 71-84: the flag, the join of at
\* most 2 s, then the stream and PyAudio; what the stream calls raise leaves
\* async_shutdown through line 189
WakeShutdown ==
    /\ spc = "wake"
    /\ wake_running' = FALSE
    /\ \E fails \in BOOLEAN :
         IF fails
           THEN /\ spc' = "raised"
                /\ UNCHANGED wake_stream_open
           ELSE /\ spc' = "capture"
                /\ wake_stream_open' = FALSE
    /\ UNCHANGED <<callback, wakeLocal, n_scheduled, pending>>
    /\ UNCHANGED <<stream, p_alive>>
    /\ UNCHANGED <<reentrant_ret, cancelled_at, join_deadline>>
    /\ UNCHANGED retryVars
    /\ UNCHANGED procVars
    /\ UNCHANGED extVars
    /\ UNCHANGED orchVars
    /\ UNCHANGED capVars

\* __init__.py 190 with audio_capture_vad.py 71-73: the flag is cleared and
\* the join of at most 2 s begins
CaptureShutdownSignal ==
    /\ spc = "capture"
    /\ IF recording
         THEN /\ recording' = FALSE
              /\ join_deadline' = now + SHUTDOWN_JOIN_MS
              /\ spc' = "capture_join"
         ELSE /\ spc' = "capture_release"
              /\ UNCHANGED <<recording, join_deadline>>
    /\ UNCHANGED <<threadVars, rets_normal, rets_forced>>
    /\ UNCHANGED <<reentrant_ret, cancelled_at>>
    /\ UNCHANGED retryVars
    /\ UNCHANGED procVars
    /\ UNCHANGED extVars
    /\ UNCHANGED orchVars
    /\ UNCHANGED wakeVars
    /\ UNCHANGED devVars

\* time passes inside the join with the thread inside its open or its read
JoinWait ==
    /\ spc = "capture_join"
    /\ tpc \in {"open", "read"}
    /\ now < join_deadline
    /\ now' = now + CHUNK_DURATION_MS
    /\ UNCHANGED <<tpc, event_set, file_size, file_frames, start_time, frames_read,
                   triggered, ring_buffer, voiced_frames, num_silent_chunks,
                   is_speech, trigger_frame, trigger_time, last_frame_at, end_kind>>
    /\ UNCHANGED <<recording, rets_normal, rets_forced>>
    /\ UNCHANGED orchVars
    /\ UNCHANGED wakeVars
    /\ UNCHANGED devVars
    /\ UNCHANGED auxVars

\* audio_capture_vad.py 73: the thread has ended, join returns
ShutdownJoined ==
    /\ spc = "capture_join"
    /\ tpc = "done"
    /\ spc' = "capture_release"
    /\ UNCHANGED <<reentrant_ret, cancelled_at, join_deadline>>
    /\ UNCHANGED retryVars
    /\ UNCHANGED procVars
    /\ UNCHANGED extVars
    /\ UNCHANGED orchVars
    /\ UNCHANGED wakeVars
    /\ UNCHANGED capVars
    /\ UNCHANGED devVars

\* audio_capture_vad.py 73: the 2 s are over, join returns with the thread alive
ShutdownJoinTimeout ==
    /\ spc = "capture_join"
    /\ tpc # "done"
    /\ now >= join_deadline
    /\ spc' = "capture_release"
    /\ UNCHANGED <<reentrant_ret, cancelled_at, join_deadline>>
    /\ UNCHANGED retryVars
    /\ UNCHANGED procVars
    /\ UNCHANGED extVars
    /\ UNCHANGED orchVars
    /\ UNCHANGED wakeVars
    /\ UNCHANGED capVars
    /\ UNCHANGED devVars

\* audio_capture_vad.py 75-80: the stream, if there is one, is stopped and
\* closed (self._stream keeps the closed stream), PyAudio is terminated; what
\* these calls raise leaves async_shutdown through line 190
CaptureRelease ==
    /\ spc = "capture_release"
    /\ \E fails \in BOOLEAN :
         IF fails
           THEN /\ spc' = "raised"
                /\ UNCHANGED <<stream, p_alive>>
           ELSE /\ spc' = "rest"
                /\ stream' = IF stream = "none" THEN "none" ELSE "closed"
                /\ p_alive' = FALSE
    /\ UNCHANGED wake_stream_open
    /\ UNCHANGED <<reentrant_ret, cancelled_at, join_deadline>>
    /\ UNCHANGED retryVars
    /\ UNCHANGED procVars
    /\ UNCHANGED extVars
    /\ UNCHANGED orchVars
    /\ UNCHANGED wakeVars
    /\ UNCHANGED capVars

\* __init__.py 191-194: the client and the response handler have nothing to
\* shut down; async_shutdown returns
ShutdownFinish ==
    /\ spc = "rest"
    /\ spc' = "done"
    /\ UNCHANGED <<reentrant_ret, cancelled_at, join_deadline>>
    /\ UNCHANGED retryVars
    /\ UNCHANGED procVars
    /\ UNCHANGED extVars
    /\ UNCHANGED orchVars
    /\ UNCHANGED wakeVars
    /\ UNCHANGED capVars
    /\ UNCHANGED devVars

NextShutdown ==
    \/ Next
    \/ ShutdownCancelLoop
    \/ WakeShutdown
    \/ CaptureShutdownSignal
    \/ JoinWait
    \/ ShutdownJoined
    \/ ShutdownJoinTimeout
    \/ CaptureRelease
    \/ ShutdownFinish

SpecShutdown == Init /\ [][NextShutdown]_vars

(* ---------------- GeminiLiveClient._request_with_retries ---------------- *)

\* what one attempt of lines 219-221 can do: return the reply, fail with a
\* transport error (connection, timeout), fail on an error status of the
\* reply (raise_for_status: ClientResponseError, an aiohttp.ClientError), or
\* raise something the except clause of line 222 does not name
AttemptOutcomes == {"ok", "transport", "status", "other"}

\* line 222: except (aiohttp.ClientError, asyncio.TimeoutError)
Caught(o) == o \in {"transport", "status"}

\* the same delay before every retry
BackoffConstant(a) == BACKOFF_BASE

\* line 225: asyncio.sleep(1 * (attempt + 1)), in seconds
BackoffDelay(a) == BACKOFF_BASE * (a + 1)

\* lines 214-217: the helper is entered
HelperEntry ==
    /\ rpc \in {"idle", "returned", "raised"}
    /\ n_requests < MaxRequests
    /\ n_requests' = n_requests + 1
    /\ rpc' = "attempt"
    /\ attempt' = 0
    /\ backoff_left' = 0
    /\ delays' = <<>>
    /\ outcomes' = <<>>

\* gemini_live_client.py 135 with 216-217: a call of the helper
RequestStart ==
    /\ HelperEntry
    /\ UNCHANGED procVars
    /\ UNCHANGED extVars
    /\ UNCHANGED shutVars
    /\ UNCHANGED orchVars
    /\ UNCHANGED wakeVars
    /\ UNCHANGED capVars
    /\ UNCHANGED devVars

\* lines 219-225: one pass of the for loop
RequestAttempt ==
    /\ rpc = "attempt"
    /\ \E o \in AttemptOutcomes :
         /\ outcomes' = Append(outcomes, o)
         /\ IF o = "ok"
              THEN /\ rpc' = "returned"
                   /\ UNCHANGED <<backoff_left, delays>>
              ELSE IF Caught(o) /\ attempt # RETRIES - 1
                THEN /\ rpc' = "backoff"
                     /\ backoff_left' = BackoffDelay(attempt)
                     /\ delays' = Append(delays, BackoffDelay(attempt))
                ELSE /\ rpc' = "raised"
                     /\ UNCHANGED <<backoff_left, delays>>
    /\ UNCHANGED <<attempt, n_requests>>
    /\ UNCHANGED procVars
    /\ UNCHANGED extVars
    /\ UNCHANGED shutVars
    /\ UNCHANGED orchVars
    /\ UNCHANGED wakeVars
    /\ UNCHANGED capVars
    /\ UNCHANGED devVars

\* a second of the sleep of line 225 passes
BackoffTick ==
    /\ rpc = "backoff"
    /\ backoff_left > 0
    /\ backoff_left' = backoff_left - 1
    /\ UNCHANGED <<rpc, attempt, delays, outcomes, n_requests>>
    /\ UNCHANGED procVars
    /\ UNCHANGED extVars
    /\ UNCHANGED shutVars
    /\ UNCHANGED orchVars
    /\ UNCHANGED wakeVars
    /\ UNCHANGED capVars
    /\ UNCHANGED devVars

\* the sleep of line 225 returns: the next pass of line 217
BackoffDone ==
    /\ rpc = "backoff"
    /\ backoff_left = 0
    /\ attempt' = attempt + 1
    /\ rpc' = "attempt"
    /\ UNCHANGED <<backoff_left, delays, outcomes, n_requests>>
    /\ UNCHANGED procVars
    /\ UNCHANGED extVars
    /\ UNCHANGED shutVars
    /\ UNCHANGED orchVars
    /\ UNCHANGED wakeVars
    /\ UNCHANGED capVars
    /\ UNCHANGED devVars

NextRetry ==
    \/ RequestStart
    \/ RequestAttempt
    \/ BackoffTick
    \/ BackoffDone

SpecRetry == Init /\ [][NextRetry]_vars

(* ---------------- GeminiLiveClient.process_audio ---------------- *)

\* the texts of lines 77, 85 and 194
TEXT_NOT_FOUND == "Error: audio file not found"
TEXT_EMPTY == "Error: empty audio file"
TEXT_APOLOGY == "I'm sorry, I encountered an error processing your request."

\* the dict of lines 76-79, 84-87, 149-152, 182-185, 193-196
Reply(t) == [text |-> t, audio_response |-> NoneVal]

\* what the argument of process_audio can name
FileStates == {"missing", "empty", "content"}

\* the exceptions (subclasses of Exception) the body can raise: the three
\* the helper raises, a failed read of the file (96-97), a reply of a shape
\* lines 138-146 cannot index, a failure of the fallback model (176-180)
Exceptions == {"transport", "status", "other", "io", "shape", "model"}

\* line 154: except Exception
InnerCatches(e) == e \in Exceptions

\* an outer handler that names the errors of the HTTP client only
OuterCatchesClientErrors(e) == e \in {"transport", "status"}

\* line 191: except Exception
OuterCatches(e) == e \in Exceptions

\* process_audio is over: it returned r
Returns(r) ==
    /\ ppc' = "returned"
    /\ presult' = r

\* lines 191-196: an exception reaches the outer handler, or leaves the call
OuterHandler(e) ==
    IF OuterCatches(e)
      THEN Returns(Reply(TEXT_APOLOGY))
      ELSE /\ ppc' = "raised"
           /\ UNCHANGED presult

\* lines 154-156: an exception raised inside the inner try
InnerHandler(e) ==
    /\ live_exc' = e
    /\ IF InnerCatches(e)
         THEN /\ ppc' = "fallback"
              /\ UNCHANGED presult
         ELSE OuterHandler(e)

\* line 62: process_audio is called
ProcessAudioCalled ==
    /\ ppc \in {"idle", "returned", "raised"}
    /\ n_process < MaxProcessCalls
    /\ n_process' = n_process + 1
    /\ \E f \in FileStates : pfile' = f
    /\ ppc' = "exists"
    /\ presult' = [none |-> TRUE]
    /\ live_exc' = "none"
    /\ fallback_exc' = "none"
    /\ UNCHANGED <<shutVars, retryVars>>
    /\ UNCHANGED extVars
    /\ UNCHANGED orchVars
    /\ UNCHANGED wakeVars
    /\ UNCHANGED capVars
    /\ UNCHANGED devVars

\* lines 74-79
CheckExists ==
    /\ ppc = "exists"
    /\ IF pfile = "missing"
         THEN Returns(Reply(TEXT_NOT_FOUND))
         ELSE /\ ppc' = "size"
              /\ UNCHANGED presult
    /\ UNCHANGED <<pfile, live_exc, fallback_exc, n_process>>
    /\ UNCHANGED <<shutVars, retryVars>>
    /\ UNCHANGED extVars
    /\ UNCHANGED orchVars
    /\ UNCHANGED wakeVars
    /\ UNCHANGED capVars
    /\ UNCHANGED devVars

\* lines 81-87
CheckSize ==
    /\ ppc = "size"
    /\ IF pfile = "empty"
         THEN Returns(Reply(TEXT_EMPTY))
         ELSE /\ ppc' = "read"
              /\ UNCHANGED presult
    /\ UNCHANGED <<pfile, live_exc, fallback_exc, n_process>>
    /\ UNCHANGED <<shutVars, retryVars>>
    /\ UNCHANGED extVars
    /\ UNCHANGED orchVars
    /\ UNCHANGED wakeVars
    /\ UNCHANGED capVars
    /\ UNCHANGED devVars

\* lines 96-133: the file is read and the request built, or the read fails
ReadFile ==
    /\ ppc = "read"
    /\ \E ok \in BOOLEAN :
         IF ok
           THEN /\ ppc' = "call"
                /\ UNCHANGED <<presult, live_exc>>
           ELSE InnerHandler("io")
    /\ UNCHANGED <<pfile, fallback_exc, n_process>>
    /\ UNCHANGED <<shutVars, retryVars>>
    /\ UNCHANGED extVars
    /\ UNCHANGED orchVars
    /\ UNCHANGED wakeVars
    /\ UNCHANGED capVars
    /\ UNCHANGED devVars

\* line 135: the helper is called
HelperCall ==
    /\ ppc = "call"
    /\ HelperEntry
    /\ ppc' = "helper"
    /\ UNCHANGED <<pfile, presult, live_exc, fallback_exc, n_process>>
    /\ UNCHANGED shutVars
    /\ UNCHANGED extVars
    /\ UNCHANGED orchVars
    /\ UNCHANGED wakeVars
    /\ UNCHANGED capVars
    /\ UNCHANGED devVars

\* the shapes of the reply lines 138-146 tell apart: parts with text, parts
\* none of which has a text ("" is joined), no candidates, and a value the
\* tests cannot index
ReplyShapes == {"text", "no_text", "no_candidates", "unindexable"}

\* lines 135-152: the helper returned the reply
HelperReturned ==
    /\ ppc = "helper"
    /\ rpc = "returned"
    /\ \E shape \in ReplyShapes :
         CASE shape = "text" ->
                /\ Returns(Reply("answer"))
                /\ UNCHANGED live_exc
           [] shape = "no_text" ->
                /\ Returns(Reply(""))
                /\ UNCHANGED live_exc
           [] shape = "no_candidates" ->
                /\ ppc' = "fallback"
                /\ UNCHANGED <<presult, live_exc>>
           [] shape = "unindexable" ->
                InnerHandler("shape")
    /\ UNCHANGED <<pfile, fallback_exc, n_process>>
    /\ UNCHANGED <<shutVars, retryVars>>
    /\ UNCHANGED extVars
    /\ UNCHANGED orchVars
    /\ UNCHANGED wakeVars
    /\ UNCHANGED capVars
    /\ UNCHANGED devVars

\* line 135: the helper raised what its last attempt raised
HelperRaised ==
    /\ ppc = "helper"
    /\ rpc = "raised"
    /\ InnerHandler(outcomes[Len(outcomes)])
    /\ UNCHANGED <<pfile, fallback_exc, n_process>>
    /\ UNCHANGED <<shutVars, retryVars>>
    /\ UNCHANGED extVars
    /\ UNCHANGED orchVars
    /\ UNCHANGED wakeVars
    /\ UNCHANGED capVars
    /\ UNCHANGED devVars

\* lines 158-189: the simulated transcription and the text model
Fallback ==
    /\ ppc = "fallback"
    /\ \E ok \in BOOLEAN :
         IF ok
           THEN /\ Returns(Reply("fallback answer"))
                /\ UNCHANGED fallback_exc
           ELSE /\ fallback_exc' = "model"
                /\ OuterHandler("model")
    /\ UNCHANGED <<pfile, live_exc, n_process>>
    /\ UNCHANGED <<shutVars, retryVars>>
    /\ UNCHANGED extVars
    /\ UNCHANGED orchVars
    /\ UNCHANGED wakeVars
    /\ UNCHANGED capVars
    /\ UNCHANGED devVars

NextProcess ==
    \/ ProcessAudioCalled
    \/ CheckExists
    \/ CheckSize
    \/ ReadFile
    \/ HelperCall
    \/ RequestAttempt
    \/ BackoffTick
    \/ BackoffDone
    \/ HelperReturned
    \/ HelperRaised
    \/ Fallback

SpecProcess == Init /\ [][NextProcess]_vars

(* ---------------- ResponseHandler.play_response ---------------- *)

\* the values a key of the response can hold: None, an empty and a non-empty
\* string for "text", an empty and a non-empty payload for "audio_response"
EmptyStr == <<"str", 0>>
SomeText == <<"str", 1>>
EmptyAudio == <<"bytes", 0>>
SomeAudio == <<"bytes", 1>>
TextValues == {NoneVal, EmptyStr, SomeText}
AudioValues == {NoneVal, EmptyAudio, SomeAudio}

\* the dictionaries play_response is called with: each key present or absent
ResponseDicts ==
    UNION {[keys -> TextValues \cup AudioValues] :
             keys \in SUBSET {"text", "audio_response"}}

\* the arguments of play_response: None, or a dictionary whose keys hold
\* values of their kind
Responses ==
    {[is_none |-> TRUE, dict |-> <<>>]} \cup
    {[is_none |-> FALSE, dict |-> d] :
       d \in {e \in ResponseDicts :
                /\ "text" \in DOMAIN e => e["text"] \in TextValues
                /\ "audio_response" \in DOMAIN e
                     => e["audio_response"] \in AudioValues}}

\* lines 65-66: dict.get answers None for a key that is absent
Get(d, k) == IF k \in DOMAIN d THEN d[k] ELSE NoneVal

\* truth of a value that only tells None from the rest
TruthyNotNone(v) == v # NoneVal

\* lines 62, 69, 74, 77: truth of a value; None and the empty values are false
Truthy(v) == v \notin {NoneVal, EmptyStr, EmptyAudio}

\* line 62: truth of the argument; None and the empty dictionary are false
TruthyResponse(r) == ~r.is_none /\ DOMAIN r.dict # {}

\* text before audio
PlayPathTextFirst(text_response, audio_response) ==
    IF Truthy(text_response) THEN "tts"
    ELSE IF Truthy(audio_response) THEN "audio"
    ELSE "none"

\* lines 74-79: the branch taken inside the try
PlayPath(text_response, audio_response) ==
    IF Truthy(audio_response) THEN "audio"
    ELSE IF Truthy(text_response) THEN "tts"
    ELSE "none"

\* line 55: play_response is called
PlayCalled ==
    /\ play_pc \in {"idle", "returned", "raised"}
    /\ n_plays < MaxPlayCalls
    /\ \E r \in Responses : play_arg' = r
    /\ play_pc' = "entered"
    /\ tts_calls' = 0
    /\ audio_calls' = 0
    /\ n_plays' = n_plays + 1
    /\ UNCHANGED <<orchVars, wakeVars, capVars, devVars>>
    /\ UNCHANGED <<shutVars, retryVars, procVars, initVars, logVars, fileVars>>

\* lines 62-71: the two early returns
PlayChecks ==
    /\ play_pc = "entered"
    /\ IF ~TruthyResponse(play_arg)
         THEN play_pc' = "returned"
         ELSE IF /\ ~Truthy(Get(play_arg.dict, "text"))
                 /\ ~Truthy(Get(play_arg.dict, "audio_response"))
                THEN play_pc' = "returned"
                ELSE play_pc' = "try"
    /\ UNCHANGED <<play_arg, tts_calls, audio_calls, n_plays>>
    /\ UNCHANGED <<orchVars, wakeVars, capVars, devVars>>
    /\ UNCHANGED <<shutVars, retryVars, procVars, initVars, logVars, fileVars>>

\* lines 73-79: one branch is taken; _play_audio (137-147) only logs that it
\* is not implemented, _play_tts (99-135) calls the TTS service once
PlayBranch ==
    /\ play_pc = "try"
    /\ LET path == PlayPath(Get(play_arg.dict, "text"),
                            Get(play_arg.dict, "audio_response"))
       IN  /\ audio_calls' = IF path = "audio" THEN audio_calls + 1 ELSE audio_calls
           /\ tts_calls' = IF path = "tts" THEN tts_calls + 1 ELSE tts_calls
           /\ play_pc' = IF path = "tts" THEN "service" ELSE "returned"
    /\ UNCHANGED <<play_arg, n_plays>>
    /\ UNCHANGED <<orchVars, wakeVars, capVars, devVars>>
    /\ UNCHANGED <<shutVars, retryVars, procVars, initVars, logVars, fileVars>>

\* what the awaited service call can end with: a return, an error of the
\* service, or the cancellation of the awaiting task
ServiceOutcomes == {"ok", "ServiceNotFound", "CancelledError"}

\* line 80: except Exception; CancelledError is a BaseException
PlayCatches(e) == e # "CancelledError"

\* lines 128-135 and 80-81: the service call returns, or raises; the handler
\* of play_response logs what it catches and play_response returns
PlayServiceDone ==
    /\ play_pc = "service"
    /\ \E e \in ServiceOutcomes :
         play_pc' = IF e = "ok" \/ PlayCatches(e) THEN "returned" ELSE "raised"
    /\ UNCHANGED <<play_arg, tts_calls, audio_calls, n_plays>>
    /\ UNCHANGED <<orchVars, wakeVars, capVars, devVars>>
    /\ UNCHANGED <<shutVars, retryVars, procVars, initVars, logVars, fileVars>>

NextPlay ==
    \/ PlayCalled
    \/ PlayChecks
    \/ PlayBranch
    \/ PlayServiceDone

SpecPlay == Init /\ [][NextPlay]_vars

(* ---------------- WakeWordHandler ---------------- *)

\* lines 131-135 with line 48: PyAudio hands a chunk to the queue, a
\* queue.Queue() with no maxsize; put never blocks and never drops
AudioCallback ==
    /\ wake_running
    /\ wake_frames < MaxWakeFrames
    /\ wake_frames' = wake_frames + 1
    /\ audio_queue' = Append(audio_queue, wake_frames + 1)
    /\ UNCHANGED <<wake_running, callback, sensitivity, buffer, last_score,
                   fired, emitted, n_scheduled, pending>>
    /\ UNCHANGED orchVars
    /\ UNCHANGED capVars
    /\ UNCHANGED devVars
    /\ UNCHANGED auxVars

\* a window that is never trimmed
WindowAppendNoEvict(buf, chunk) == Append(buf, chunk)

\* lines 152-154
WindowAppend(buf, chunk) ==
    IF Len(buf) + 1 > MaxBufferLength THEN Tail(Append(buf, chunk))
    ELSE Append(buf, chunk)

\* the comparison of line 166 made with >=
DetectsAtOrAbove(score, t) == score >= t

\* line 166
Detects(score, t) == score > t

\* line 172
CallbackSet(cb) == cb

\* lines 146-179: one chunk taken from the queue, scored, compared
ListenStep ==
    /\ wake_running
    /\ audio_queue # <<>>
    /\ \E score \in Scores :
         LET window == WindowAppend(buffer, Head(audio_queue))
             det == Detects(score, sensitivity)
         IN  /\ audio_queue' = Tail(audio_queue)
             /\ last_score' = score
             /\ fired' = det
             /\ IF det /\ CallbackSet(callback)
                  THEN /\ ScheduleCallback
                       /\ emitted' = 1
                       /\ buffer' = <<>>
                  ELSE /\ UNCHANGED <<pending, n_scheduled>>
                       /\ emitted' = 0
                       /\ buffer' = window
    /\ fallback_logs' = FallbackLogs(wake_word, fallback_logs)
    /\ taken_in' = current_state
    /\ UNCHANGED wake_word
    /\ UNCHANGED <<wake_running, callback, sensitivity, wake_frames>>
    /\ UNCHANGED orchVars
    /\ UNCHANGED capVars
    /\ UNCHANGED devVars
    /\ UNCHANGED <<shutVars, retryVars, procVars, initVars, fileVars, playVars>>

\* where a pass of the loop can raise: the conversion of line 149 (before
\* the chunk is appended), predict of line 160, the key of line 164
RaisePoints == {"convert", "predict", "score"}

\* a loop whose inner handler is the one of line 181 only (queue.Empty)
LoopCatchesNothing(at) == FALSE

\* line 183: except Exception, inside the while loop
LoopCatches(at) == at \in RaisePoints

\* lines 183-184: a pass of the loop raises; what line 183 does not catch
\* ends the loop at line 186
ListenError ==
    /\ wake_running
    /\ audio_queue # <<>>
    /\ audio_queue' = Tail(audio_queue)
    /\ \E at \in RaisePoints :
         /\ buffer' = IF at = "convert" THEN buffer
                       ELSE WindowAppend(buffer, Head(audio_queue))
         /\ fallback_logs' = IF at = "score"
                                THEN FallbackLogs(wake_word, fallback_logs)
                                ELSE fallback_logs
         /\ wake_running' = LoopCatches(at)
    /\ taken_in' = current_state
    /\ UNCHANGED wake_word
    /\ last_score' = -1
    /\ fired' = FALSE
    /\ emitted' = 0
    /\ UNCHANGED <<callback, sensitivity, wake_frames, n_scheduled, pending>>
    /\ UNCHANGED orchVars
    /\ UNCHANGED capVars
    /\ UNCHANGED devVars
    /\ UNCHANGED <<shutVars, retryVars, procVars, initVars, fileVars, playVars>>

NextWake ==
    \/ WakeWordInitialize
    \/ FinishInitialize
    \/ AudioCallback
    \/ ListenStep
    \/ ListenError

SpecWake == InitWake /\ [][NextWake]_vars
(* ---------------- the detector beside the main loop ---------------- *)

\* lines 131-135, for the first frames of the run
ListenFrame ==
    /\ wake_frames < MaxListenFrames
    /\ AudioCallback

\* the main loop with the detector's thread frame by frame: the triggers are
\* the ones ListenStep schedules
NextListen ==
    \/ WakeWordInitialize
    \/ FinishInitialize
    \/ ListenFrame
    \/ ListenStep
    \/ ListenError
    \/ DeliverTrigger
    \/ MainLoopStart
    \/ StartIdleSleep
    \/ Tick
    \/ SleepDone
    \/ CaptureStart
    \/ CaptureRaises
    \/ CaptureReturn
    \/ CaptureTimeout
    \/ CaptureJoined
    \/ ThreadOpen
    \/ Stall
    \/ ThreadRead
    \/ ThreadError
    \/ ThreadWrite
    \/ ProcessStart
    \/ ProcessReturn
    \/ RespondStart
    \/ RespondReturn

SpecListen == Init /\ [][NextListen]_vars

(* ======================= the claims ======================= *)

\* the frame loop of the capture ran and ended by itself or by the flag
LoopEnded == end_kind \in {"normal", "forced", "stopped"}

\* C1: the orchestrator state becomes CapturingCommand only from
\* IdleListening: no step takes ProcessingWithModel or Responding to
\* CapturingCommand.
C1_CapturingOnlyFromIdle ==
    [][(current_state' = CAPTURING /\ current_state # CAPTURING)
          => current_state = IDLE]_vars

\* C2: when capture_audio has returned from a capture whose frame loop ended
\* with zero utterance frames, it returned no audio and the state machine is
\* not in ProcessingWithModel.
C2_EmptyCaptureIsNoAudio ==
    (pc = "eval" /\ tpc = "done" /\ LoopEnded /\ file_frames = <<>>)
        => (audio_data = NoneVal /\ current_state # PROCESSING)

\* C3: capture_audio is invoked at most once per accepted trigger, accepted
\* triggers are among the delivered ones, and a step from IdleListening to
\* CapturingCommand is the delivery of exactly one trigger.
C3_OneCapturePerTrigger ==
    /\ [](n_captures <= n_accepted /\ n_accepted <= n_delivered
          /\ n_delivered <= n_scheduled)
    /\ [][(current_state = IDLE /\ current_state' = CAPTURING)
            => (n_delivered' = n_delivered + 1 /\ n_accepted' = n_accepted + 1
                /\ n_captures' = n_captures)]_vars

\* two triggers were delivered back to back and one capture was started
C3_Witness ==
    /\ n_delivered = 2
    /\ n_accepted = 1
    /\ n_captures = 1
    /\ pc = "capture_wait"

\* the step in which capture_audio raised: it was called, was not busy and
\* started no thread
CaptureCallRaised ==
    /\ pc = "eval"
    /\ n_captures' = n_captures + 1
    /\ ~recording
    /\ ~recording'

\* C4: an exception in the main loop puts the state to IdleListening and the
\* loop into a cool-down of at least one second (10 tenths), the loop stays
\* marked running, and the next evaluation comes only when the cool-down has
\* elapsed tenth by tenth.
C4_ErrorCooldown ==
    /\ [][CaptureCallRaised
            => (current_state' = IDLE /\ pc' = "cooldown" /\ timer' >= 10
                /\ running' /\ running)]_vars
    /\ [][(pc' = "cooldown" /\ pc # "cooldown") => current_state' = IDLE]_vars
    /\ [][pc = "cooldown"
            => \/ (pc' = "cooldown" /\ timer' \in {timer, timer - 1})
               \/ (pc' = "eval" /\ timer = 0 /\ running')]_vars

\* a capture raised and the cool-down has elapsed
C4_Witness ==
    /\ pc = "cooldown"
    /\ timer = 0
    /\ n_captures = 1
    /\ running

\* C5: when the processing call returns the state is Responding, whatever a
\* trigger wrote meanwhile, and when playback returns it is IdleListening;
\* in both cases the loop evaluates that state next.
C5_ProcessThenRespondThenIdle ==
    /\ [][(pc = "process_wait" /\ pc' # pc)
            => (current_state' = RESPONDING /\ pc' = "eval"
                /\ response' \in {<<"answer">>, <<"fallback">>})]_vars
    /\ [][(pc = "respond_wait" /\ pc' # pc)
            => (current_state' = IDLE /\ pc' = "eval")]_vars
    /\ [](pc = "respond_wait" => response # Unbound)

\* playback of a fallback text is in progress
C5_Witness ==
    /\ pc = "respond_wait"
    /\ response = <<"fallback">>
    /\ current_state = RESPONDING

\* C6: the processing call is made only for a capture that sealed a
\* non-empty utterance, and with the file of that same capture.
C6_ProcessingOnlyNonEmpty ==
    (pc = "process_wait" /\ LoopEnded)
        => (processed = Path(n_captures) /\ Len(file_frames) > 0)

\* C7: the frame last scored fired iff its score strictly exceeds the
\* sensitivity; a frame whose scoring failed does not fire; an event is
\* emitted only for a frame that fired.
C7_FiresIffScoreAbove ==
    /\ (last_score >= 0 => (fired <=> last_score > sensitivity))
    /\ (last_score < 0 => ~fired)
    /\ (emitted = 1 => fired)

\* a frame scored exactly the sensitivity and did not fire
C7_Witness ==
    /\ wake_frames > 0
    /\ last_score = sensitivity
    /\ ~fired

\* C8: a frame that fired has emitted exactly one event and left the window
\* empty, in every detector state.
C8_FiredEmitsAndClears ==
    fired => (emitted = 1 /\ buffer = <<>>)

\* C9 as claimed: a forced end comes only after the segmenter triggered and
\* more than the limit has passed since that trigger.
C9_ForcedSinceTrigger ==
    (tpc = "write" /\ end_kind = "forced")
        => (triggered /\ now - trigger_time > MAX_RECORDING_MS)

\* C9 as amended: the limit runs from the start of the capture.  A forced
\* end comes only with more than the limit elapsed since start_time; the
\* loop reads no further frame once a frame was checked past the limit; and
\* when the frame that forces the end arrived one frame duration after the
\* previous check, the end is within one frame duration of the limit.
C9_ForcedSinceStart ==
    /\ []((tpc = "write" /\ end_kind = "forced")
            => now - start_time > MAX_RECORDING_MS)
    /\ [](tpc = "read" => last_frame_at - start_time <= MAX_RECORDING_MS)
    /\ [][(tpc = "read" /\ tpc' = "write" /\ end_kind' = "forced"
           /\ now = last_frame_at)
            => now' - start_time <= MAX_RECORDING_MS + CHUNK_DURATION_MS]_vars

\* a forced end with less than the limit elapsed since the trigger
C9_Witness ==
    /\ tpc = "write"
    /\ end_kind = "forced"
    /\ triggered
    /\ trigger_time > start_time
    /\ now - trigger_time <= MAX_RECORDING_MS

\* C10: no value capture_audio returns after a forced end is a value it
\* returns after a normal end.
C10_ForcedDistinctFromNormal ==
    rets_normal \cap rets_forced = {}

\* a pass of the frame loop from line 193 on (one more frame read)
FrameStep == tpc = "read" /\ frames_read' = frames_read + 1

\* the padding buffer of an Idle pass after line 200 pushed the pair
PushedRing == RingAppend(ring_buffer, <<frames_read', is_speech'>>)

\* C11: the segmenter goes from Idle to Triggered on a frame only if, with
\* that frame pushed, the speech entries of the padding buffer number more
\* than half of its capacity (half of the capacity is not enough).
C11_TriggerOnlyAboveHalf ==
    [][(~triggered /\ triggered')
         => (FrameStep /\ 2 * NumVoiced(PushedRing) > RingMaxLen)]_vars

\* the segmenter has just triggered on a window that had wrapped around
C11_Witness ==
    /\ triggered
    /\ trigger_frame = frames_read
    /\ frames_read > RingMaxLen
    /\ is_speech

\* C12 as claimed: an Idle pass that leaves more than half of the entries
\* the buffer currently holds marked speech triggers on that frame, full
\* buffer or not.
C12_TriggersAboveHalfOfHeld ==
    [][(FrameStep /\ ~triggered /\ 2 * NumVoiced(PushedRing) > Len(PushedRing))
         => triggered']_vars

\* C12 as amended: the count of speech entries is compared with half of the
\* capacity.  An Idle pass that leaves more speech entries than half of the
\* capacity triggers on that frame, full buffer or not; a pass that leaves
\* no more than that stays Idle, whatever share of the held entries it is.
C12_TriggersAboveHalfOfCapacity ==
    [][(FrameStep /\ ~triggered)
         => (triggered' <=> 2 * NumVoiced(PushedRing) > RingMaxLen)]_vars

\* the segmenter has just triggered on a buffer not yet filled to capacity
C12_Witness ==
    /\ triggered
    /\ trigger_frame = frames_read
    /\ frames_read < RingMaxLen

\* C13: on the step from Idle to Triggered the frames of the padding buffer
\* are appended to the utterance oldest first, the triggering frame last and
\* once; the padding buffer is left empty and the silence counter is 0.
C13_FlushInOrder ==
    [][(~triggered /\ triggered')
         => /\ voiced_frames' =
                 voiced_frames \o [i \in 1..Len(PushedRing) |-> PushedRing[i][1]]
            /\ voiced_frames'[Len(voiced_frames')] = frames_read'
            /\ Cardinality({i \in DOMAIN voiced_frames' :
                              voiced_frames'[i] = frames_read'}) = 1
            /\ \A i \in 1..(Len(voiced_frames') - 1) :
                 voiced_frames'[i] < voiced_frames'[i + 1]
            /\ ring_buffer' = <<>>
            /\ num_silent_chunks' = 0]_vars

\* the flush of a full buffer whose oldest frames had been evicted
C13_Witness ==
    /\ tpc = "read"
    /\ triggered
    /\ trigger_frame = frames_read
    /\ ring_buffer = <<>>
    /\ Len(voiced_frames) = RingMaxLen
    /\ voiced_frames[1] > 1

\* C14: a pass in the Triggered state appends its frame, adds one to the
\* silence counter for a non-speech frame and resets it for a speech frame,
\* and ends the capture normally exactly when the counter then exceeds
\* speech timeout / frame duration; the loop never reads on with the counter
\* above that, and a normal end comes from no other step.
C14_NormalEndAtFirstExceeding ==
    /\ [][(FrameStep /\ triggered)
            => /\ voiced_frames' = Append(voiced_frames, frames_read')
               /\ num_silent_chunks' =
                    (IF is_speech' THEN 0 ELSE num_silent_chunks + 1)
               /\ (end_kind' = "normal")
                    <=> (~is_speech'
                         /\ num_silent_chunks' * CHUNK_DURATION_MS > SPEECH_TIMEOUT_MS)]_vars
    /\ [][(end_kind # "normal" /\ end_kind' = "normal")
            => (FrameStep /\ triggered)]_vars
    /\ []((tpc = "read" /\ triggered)
            => num_silent_chunks * CHUNK_DURATION_MS <= SPEECH_TIMEOUT_MS)

\* a normal end whose counter had started over after speech that followed
\* the trigger
C14_Witness ==
    /\ tpc = "write"
    /\ end_kind = "normal"
    /\ num_silent_chunks * CHUNK_DURATION_MS > SPEECH_TIMEOUT_MS
    /\ (num_silent_chunks - 1) * CHUNK_DURATION_MS <= SPEECH_TIMEOUT_MS
    /\ frames_read - trigger_frame > num_silent_chunks

\* the least number of frames lasting longer than the speech timeout
FirstExceeding == (SPEECH_TIMEOUT_MS \div CHUNK_DURATION_MS) + 1

\* the frame loop has ended and every frame after the trigger was silence,
\* for longer than the speech timeout
OnlySilenceAfterTrigger ==
    /\ tpc = "write"
    /\ trigger_frame > 0
    /\ num_silent_chunks = frames_read - trigger_frame
    /\ num_silent_chunks * CHUNK_DURATION_MS > SPEECH_TIMEOUT_MS

\* frames a to b in arrival order
FrameRange(a, b) == [i \in 1..(b - a + 1) |-> a + i - 1]

\* the pre-roll of a trigger at frame f: the frames the buffer held then
PreRollStart(f) == IF f > RingMaxLen THEN f - RingMaxLen + 1 ELSE 1

\* C15: a capture that got only silence after the trigger, for longer than
\* the speech timeout, has ended normally, and the utterance it seals is not
\* empty: the pre-roll, then the frames after the trigger up to the first
\* one at which the timeout was exceeded.
C15_SilenceAfterTriggerSeals ==
    [][(OnlySilenceAfterTrigger /\ tpc' = "done")
         => /\ end_kind' = "normal"
            /\ file_frames' # <<>>
            /\ file_frames' = FrameRange(PreRollStart(trigger_frame),
                                         trigger_frame + FirstExceeding)]_vars

\* a sealed utterance of a full pre-roll and the silent frames of the timeout
C15_Witness ==
    /\ tpc = "done"
    /\ end_kind = "normal"
    /\ Len(file_frames) = RingMaxLen + FirstExceeding
    /\ file_frames[1] > 1
    /\ file_size = WavSize(file_frames)

\* C16: a call of capture_audio made while a capture is recording returns at
\* once, starts no thread, leaves the active capture and the call waiting on
\* it as they are, and returns a value other than the one capture_audio
\* returns when no audio was captured.
C16_BusyIsDistinct ==
    [][(reentrant_ret' # reentrant_ret)
         => /\ UNCHANGED <<orchVars, capVars, devVars>>
            /\ reentrant_ret' # CaptureResult(0, n_captures)]_vars

\* C17: a call of capture_audio is never still pending later than the
\* recording limit plus the grace period after it was made (a read in flight
\* when the timer fires is given its frame duration), whatever the frames
\* read were and also when a read does not return; and a call that ran into
\* the timeout with no frame captured returns the no-audio value.
C17_ReturnsWithinBound ==
    /\ [](pc \in {"capture_wait", "capture_join"}
            => now < CaptureTimeoutMs + 2 * CHUNK_DURATION_MS)
    /\ [][(pc = "capture_join" /\ pc' = "eval" /\ file_frames = <<>>)
            => audio_data' = NoneVal]_vars

\* the join of audio_capture_vad.py 73 is over for the capture thread: there
\* was nothing to join, or the thread has ended, or the timeout has passed
CaptureJoinOver ==
    \/ join_deadline = 0 /\ tpc \in {"none", "done"}
    \/ join_deadline > 0 /\ (tpc = "done" \/ now >= join_deadline)

\* C18 as claimed: the wake-word loop is stopped first, a capture in flight
\* is cancelled only after that, and the audio device is released only after
\* the capture has been awaited.
C18_WakeLoopStoppedFirst ==
    /\ [][(pc = "capture_wait" /\ pc' = "cancelled") => ~wake_running]_vars
    /\ [][(recording /\ ~recording' /\ spc = "capture") => ~wake_running]_vars
    /\ [][(p_alive /\ ~p_alive') => CaptureJoinOver]_vars

\* C18 as amended: async_shutdown first cancels the main loop task, and with
\* it a capture_audio call in flight, while the wake-word loop still runs;
\* then it stops the wake-word loop and releases the detector's stream; then
\* it clears the recording flag and joins the capture thread; then, the join
\* ended or timed out, it releases the capture's stream and PyAudio; then it
\* returns.  No step is taken before the one before it is over.
C18_ShutdownOrder ==
    /\ [][(wake_running /\ ~wake_running')
            => (spc = "wake" /\ pc = "cancelled" /\ ~running)]_vars
    /\ [](spc \in {"capture", "capture_join", "capture_release", "rest", "done"}
            => (pc = "cancelled" /\ ~wake_running /\ ~wake_stream_open))
    /\ [][(spc # "none" /\ recording /\ ~recording' /\ tpc' # "done")
            => (spc = "capture" /\ spc' = "capture_join")]_vars
    /\ [][(p_alive /\ ~p_alive')
            => (spc = "capture_release" /\ CaptureJoinOver)]_vars
    /\ [](spc \in {"rest", "done"} => (~p_alive /\ stream # "open"))

\* async_shutdown was invoked with a capture in flight and has returned
C18_Witness ==
    /\ spc = "done"
    /\ cancelled_at = "capture_wait"
    /\ join_deadline > 0
    /\ ~wake_running
    /\ ~p_alive

\* C19: when async_shutdown, invoked during a capture, is over, it has
\* returned (not raised), the capture thread has ended, its stream and
\* PyAudio are released, and so is every other component, also when a call
\* of one component's shutdown failed.
C19_ShutdownCompletes ==
    (cancelled_at = "capture_wait" /\ spc \in {"done", "raised"})
        => /\ spc = "done"
           /\ ~wake_running
           /\ ~wake_stream_open
           /\ ~recording
           /\ tpc = "done"
           /\ stream # "open"
           /\ ~p_alive

\* the attempts of the call that failed with an error line 222 catches
FailedAttempts == {i \in DOMAIN outcomes : Caught(outcomes[i])}

\* C20 as claimed: a call whose three attempts all failed has slept after
\* each of them, 1, 2 and 3 times the base delay.
C20_BackoffOneTwoThree ==
    (rpc = "raised" /\ Cardinality(FailedAttempts) = RETRIES)
        => delays = <<1 * BACKOFF_BASE, 2 * BACKOFF_BASE, 3 * BACKOFF_BASE>>

\* C20 as amended: a call makes at most 3 attempts; an attempt that succeeds
\* is the last and the call returns at once; a failed attempt that is not
\* the third is followed by a sleep, of the base delay after the first and
\* of twice the base delay after the second; the third failed attempt is
\* followed by no sleep: the error is raised at once.
C20_RetriesAndBackoff ==
    /\ [](Len(outcomes) <= RETRIES)
    /\ [](\A i \in DOMAIN outcomes :
            outcomes[i] = "ok" => (i = Len(outcomes) /\ rpc = "returned"))
    /\ [](rpc = "returned" => outcomes[Len(outcomes)] = "ok")
    /\ [](delays = [i \in 1..Len(delays) |-> i * BACKOFF_BASE])
    /\ [](Len(delays) = Cardinality(FailedAttempts \ {RETRIES}))
    /\ [][(rpc = "attempt" /\ attempt = RETRIES - 1 /\ rpc' # rpc)
            => (rpc' \in {"returned", "raised"} /\ delays' = delays
                /\ (rpc' = "raised" <=> outcomes'[RETRIES] # "ok"))]_vars
    /\ []((rpc = "raised" /\ Caught(outcomes[Len(outcomes)]))
            => Len(outcomes) = RETRIES)

\* three attempts failed on transport errors: two sleeps, then the error
C20_Witness ==
    /\ rpc = "raised"
    /\ outcomes = <<"transport", "transport", "transport">>
    /\ delays = <<BACKOFF_BASE, 2 * BACKOFF_BASE>>
    /\ backoff_left = 0

\* C21: an attempt that is followed by a sleep or by another attempt failed
\* with a transport error (connection, timeout), and an attempt that got an
\* error status from the service is the last of its call: the call has
\* raised, with no backoff and no further attempt.
C21_OnlyTransportRetried ==
    \A i \in DOMAIN outcomes :
        /\ (i < Len(outcomes) \/ rpc = "backoff") => outcomes[i] = "transport"
        /\ outcomes[i] = "status" => (i = Len(outcomes) /\ rpc = "raised")

\* C22: process_audio never ends by raising; whenever it has returned, the
\* value it returned carries a text field, whatever the file was and
\* whatever the live request and the fallback did; and when the live
\* attempt ended on an exception and the fallback did too, the text is the
\* apology string.
C22_FailsSoft ==
    /\ ppc # "raised"
    /\ ppc = "returned" => "text" \in DOMAIN presult
    /\ (ppc = "returned" /\ live_exc # "none" /\ fallback_exc # "none")
          => presult.text = TEXT_APOLOGY

\* the live request failed three times on transport errors, then the
\* fallback model failed: the apology was returned
C22_Witness ==
    /\ ppc = "returned"
    /\ pfile = "content"
    /\ rpc = "raised"
    /\ outcomes = <<"transport", "transport", "transport">>
    /\ live_exc = "transport"
    /\ fallback_exc = "model"
    /\ presult = Reply(TEXT_APOLOGY)

\* C23: initialization is all or nothing.  When the lookup of the input
\* device found nothing, the main loop is not started; and when
\* async_initialize has failed, the loop is not started and nothing is left
\* running or open: not the detection thread, not its stream, not the
\* PyAudio instance of the capture.
C23_AllOrNothing ==
    /\ device_index = NoneVal => (~running /\ pc = "not_started")
    /\ ipc = "failed" => /\ ~running
                         /\ pc = "not_started"
                         /\ ~wake_running
                         /\ ~wake_stream_open
                         /\ ~p_alive

\* C24: the lookup selects a device only when exactly one input device has
\* a name that contains the configured name, letter case ignored; with no
\* such device, or with more than one, it yields None.
C24_UniqueMatchOrNotFound ==
    device_index # Unbound =>
        LET m == MatchingDevices(devices, input_device)
        IN  device_index = IF Cardinality(m) = 1
                             THEN Index((CHOOSE i \in m : TRUE) - 1)
                             ELSE NoneVal

\* a pass of the detector's loop took a chunk from the queue
ChunkConsumed == Len(audio_queue') < Len(audio_queue)

\* the capacity of the window for the constants of the source as line 141
\* computes it (truncation), and rounded to the nearest integer
WindowCapacityInt == (DETECTION_WINDOW * RATE) \div CHUNK
WindowCapacityRound == (2 * DETECTION_WINDOW * RATE + CHUNK) \div (2 * CHUNK)

\* C25: the detection window never holds more frames than its capacity; a
\* pass of the loop that appends a chunk to a full window drops exactly the
\* oldest frame and keeps the others in arrival order, the new one last
\* (otherwise it only appends); the only other outcomes of a pass are the
\* window cleared after a detection and the window untouched when the pass
\* raised before appending.  For the constants of the source the capacity
\* computed by line 141 is the rounded quotient.
C25_WindowBoundedFifo ==
    /\ [](Len(buffer) <= MaxBufferLength)
    /\ [](WindowCapacityInt = WindowCapacityRound)
    /\ [][ChunkConsumed =>
            \/ buffer' = <<>> /\ emitted' = 1
            \/ buffer' = buffer /\ last_score' = -1
            \/ buffer' = (IF Len(buffer) = MaxBufferLength THEN Tail(buffer) ELSE buffer)
                            \o <<Head(audio_queue)>>]_vars

\* the window is full and its oldest frames have been evicted
C25_Witness ==
    /\ Len(buffer) = MaxBufferLength
    /\ buffer = <<3, 4, 5>>
    /\ emitted = 0

\* C26: the padding buffer of the capture never holds more entries than
\* PADDING_DURATION_MS / CHUNK_DURATION_MS; a frame read while the segmenter
\* is idle and does not trigger is pushed last, and when the buffer was
\* full exactly its oldest entry is dropped, the others keeping their order.
C26_RingBoundedFifo ==
    /\ [](Len(ring_buffer) <= PADDING_DURATION_MS \div CHUNK_DURATION_MS)
    /\ [][(FrameStep /\ ~triggered /\ ~triggered') =>
            ring_buffer' =
                (IF Len(ring_buffer) = PADDING_DURATION_MS \div CHUNK_DURATION_MS
                   THEN Tail(ring_buffer) ELSE ring_buffer)
                    \o <<(<<frames_read', is_speech'>>)>>]_vars

\* the padding buffer is full and its first entry has been evicted
C26_Witness ==
    /\ tpc = "read"
    /\ ~triggered
    /\ Len(ring_buffer) = RingMaxLen
    /\ ring_buffer[1][1] = 2
    /\ ring_buffer[RingMaxLen][1] = frames_read

\* C27: the queue between the audio callback and the detector's loop is
\* bounded by a capacity of its own: however slow the loop, it never holds
\* every frame the callback has produced over the run.
C27_QueueBounded ==
    Len(audio_queue) < MaxWakeFrames

\* C29: over the whole run, however many chunks the detector has processed,
\* the warning that the wake word has no model of its own and the default
\* is used has been logged at most once.
C29_FallbackLoggedOnce ==
    fallback_logs <= 1

\* the four states of the assistant
AssistantStates == {IDLE, CAPTURING, PROCESSING, RESPONDING}

\* chunks the detector's loop has taken from the queue
ChunksTaken == wake_frames - Len(audio_queue)

\* C28: once started, the detector's loop is stopped by no step of the run:
\* not by a state change of the orchestrator, not by a pass that raised;
\* and in every state of the assistant in which a chunk waits in the queue,
\* the loop can take it and score it: the pass depends on nothing but the
\* handler's flag and the queue.
C28_LoopKeepsScoring ==
    /\ [][wake_running => wake_running']_vars
    /\ [](ChunksTaken > 0 => taken_in \in AssistantStates)
    /\ [][ChunkConsumed => taken_in' = current_state]_vars
    /\ []((wake_running /\ audio_queue # <<>>) => ENABLED ListenStep)

\* the first chunk fired; the second was taken while the assistant was
\* capturing, and the pass raised; the assistant has gone on to processing
\* and the loop is running
C28_Witness ==
    /\ wake_running
    /\ n_scheduled = 1
    /\ ChunksTaken = 2
    /\ taken_in = CAPTURING
    /\ last_score = -1
    /\ current_state = PROCESSING

\* C30: whenever the assistant is in IdleListening, no temporary audio file
\* of a capture exists: the file of every cycle that is over has been
\* removed, after the hand-off to process_audio or when the capture gave
\* no audio.
C30_NoArtefactLeft ==
    current_state = IDLE => temp_files = {}

\* C31: a frame read that fails inside the frame loop ends nothing: the
\* capture thread stays in the loop, the capture is still recording, and
\* the frames accumulated so far are kept.
C31_ReadErrorSkipsFrame ==
    [][(tpc = "read" /\ end_kind' = "error")
         => (tpc' = "read" /\ recording' /\ voiced_frames' = voiced_frames)]_vars

\* C32: a call of play_response with an empty response, or with a response
\* whose text and audio are both missing, None or empty, calls no playback
\* service and returns without raising.
C32_NothingToPlay ==
    LET d == play_arg.dict
        text == IF "text" \in DOMAIN d THEN d["text"] ELSE NoneVal
        audio == IF "audio_response" \in DOMAIN d THEN d["audio_response"] ELSE NoneVal
        nothing == \/ play_arg.is_none
                   \/ DOMAIN d = {}
                   \/ /\ text \in {NoneVal, EmptyStr}
                      /\ audio \in {NoneVal, EmptyAudio}
    IN  (play_pc # "idle" /\ nothing)
          => /\ tts_calls = 0
             /\ audio_calls = 0
             /\ play_pc \in {"entered", "returned"}

C32_Witness ==
    /\ play_pc = "returned"
    /\ ~play_arg.is_none
    /\ DOMAIN play_arg.dict = {"text", "audio_response"}
    /\ play_arg.dict["text"] = EmptyStr
    /\ play_arg.dict["audio_response"] = NoneVal
    /\ tts_calls = 0
    /\ n_plays = 2

\* C39: a call of play_response takes at most one playback path and audio
\* comes first: with an audio value the audio path is taken once and the TTS
\* service is not called, with or without a text; with a text and no audio
\* value the TTS service is called exactly once.
C39_OnePathAudioFirst ==
    LET d == play_arg.dict
        text == IF "text" \in DOMAIN d THEN d["text"] ELSE NoneVal
        audio == IF "audio_response" \in DOMAIN d THEN d["audio_response"] ELSE NoneVal
    IN  /\ tts_calls + audio_calls <= 1
        /\ (play_pc \in {"service", "returned", "raised"} /\ ~play_arg.is_none)
             => /\ audio = SomeAudio => (audio_calls = 1 /\ tts_calls = 0)
                /\ (audio # SomeAudio /\ text = SomeText)
                     => (tts_calls = 1 /\ audio_calls = 0)

C39_Witness ==
    /\ play_pc = "returned"
    /\ ~play_arg.is_none
    /\ DOMAIN play_arg.dict = {"text", "audio_response"}
    /\ play_arg.dict["text"] = SomeText
    /\ play_arg.dict["audio_response"] = SomeAudio
    /\ audio_calls = 1
    /\ tts_calls = 0

\* C33: every capture starts from a fresh segmenter: when the capture thread
\* has opened its stream and has read no frame yet, the segmenter is not
\* triggered, the padding buffer and the utterance are empty and the silence
\* counter is 0, whatever the captures before it did.
C33_FreshSegmenter ==
    /\ [][(tpc = "open" /\ tpc' \in {"read", "write"})
            => /\ ~triggered'
               /\ ring_buffer' = <<>>
               /\ voiced_frames' = <<>>
               /\ num_silent_chunks' = 0]_vars
    /\ []((tpc = "read" /\ frames_read = 0)
            => /\ ~triggered
               /\ ring_buffer = <<>>
               /\ voiced_frames = <<>>
               /\ num_silent_chunks = 0)

\* the second capture is about to read its first frame after the first one
\* was ended by the recording limit
C33_Witness ==
    /\ n_captures = 2
    /\ rets_forced # {}
    /\ tpc = "read"
    /\ frames_read = 0
    /\ ~triggered

\* C34: under fair scheduling, with every frame read, transcription and
\* playback returning or failing, the running main loop is in IdleListening
\* again and again: whatever state it is in, it reaches IdleListening later.
C34_AlwaysBackToIdle ==
    (running /\ current_state # IDLE) ~> (current_state = IDLE)


\* the loop is back in IdleListening after a cycle during which a second
\* trigger had been delivered
C34_Witness ==
    /\ running
    /\ current_state = IDLE
    /\ pc = "eval"
    /\ response # Unbound
    /\ n_delivered = 2
    /\ n_accepted = 1
    /\ n_captures = 1

\* C35: a trigger delivered while the loop waits for the capture, the
\* processing or the playback is dropped: the state it wrote is replaced by
\* the regular successor when the awaited call returns, it does not count as
\* accepted, and every call of capture_audio is paid for by a trigger that
\* found the state IdleListening and has not been used by an earlier call.
C35_BusyTriggerDropped ==
    /\ [][(pc \in {"capture_wait", "capture_join"}
           /\ pc' \notin {"capture_wait", "capture_join", "cancelled"})
            => current_state' = (IF audio_data' \in {NoneVal, Unbound}
                                   THEN IDLE ELSE PROCESSING)]_vars
    /\ [][(pc = "process_wait" /\ pc' \notin {pc, "cancelled"})
            => current_state' = RESPONDING]_vars
    /\ [][(pc = "respond_wait" /\ pc' \notin {pc, "cancelled"})
            => current_state' = IDLE]_vars
    /\ [][(pc \in {"capture_wait", "capture_join", "process_wait", "respond_wait"}
           /\ n_delivered' = n_delivered + 1)
            => (n_accepted' = n_accepted /\ n_captures' = n_captures /\ pc' = pc)]_vars
    /\ [][(n_captures' = n_captures + 1) => n_captures < n_accepted]_vars

\* a trigger was delivered during the cycle of another one, the cycle has
\* ended, and the loop sleeps in IdleListening with nothing pending
C35_Witness ==
    /\ current_state = IDLE
    /\ pc = "idle_sleep"
    /\ response # Unbound
    /\ n_scheduled = 2
    /\ n_delivered = 2
    /\ n_accepted = 1
    /\ n_captures = 1
    /\ pending = 0

\* a capture thread is started
ThreadStarted == tpc' = "open" /\ tpc # "open"

\* the capture thread is between its start and the end of its frame loop
ThreadInLoop == tpc \in {"open", "read"}

\* C36 as claimed: a capture thread is started only when none is running, and
\* the recording flag is true whenever a capture thread is inside its frame
\* loop.
C36_OneThreadFlagTrue ==
    /\ [][ThreadStarted => tpc \in {"none", "done"}]_vars
    /\ [](tpc = "read" => recording)

\* C36 as amended: a capture thread is started only when none is running and
\* the flag is false, and the recording flag is true while a capture thread
\* is inside its frame loop except after the timeout path of capture_audio
\* (which then joins the thread) or the shutdown of the capture has cleared
\* it to make that thread leave the loop.
C36_OneThread ==
    /\ [][ThreadStarted => (tpc \in {"none", "done"} /\ ~recording /\ recording')]_vars
    /\ []((ThreadInLoop /\ ~recording)
            => \/ pc = "capture_join"
               \/ spc \in {"capture_join", "capture_release", "rest", "done", "raised"})
    /\ [][(ThreadInLoop /\ recording /\ ~recording' /\ ThreadInLoop')
            => (pc' = "capture_join" \/ spc' = "capture_join")]_vars

\* the shutdown's join has timed out: the thread is still inside its loop,
\* the flag is cleared, and async_shutdown has returned
C36_Witness ==
    /\ tpc = "read"
    /\ ~recording
    /\ spc = "done"
    /\ cancelled_at = "capture_wait"
    /\ frames_read > 0

\* C37: the utterance a capture writes is a contiguous slice, in arrival
\* order, of the frames it read: from the oldest frame the padding buffer
\* held at the trigger (the triggering frame pushed) to the last frame read,
\* each frame once.
C37_ContiguousSlice ==
    /\ [][(~triggered /\ triggered')
            => voiced_frames' = FrameRange(PushedRing[1][1], frames_read')]_vars
    /\ []((tpc \in {"read", "write"} /\ trigger_frame > 0)
            => /\ voiced_frames # <<>>
               /\ voiced_frames[1] <= trigger_frame
               /\ voiced_frames = FrameRange(voiced_frames[1], frames_read))
    /\ [][(tpc = "write" /\ tpc' = "done" /\ trigger_frame > 0)
            => file_frames' = voiced_frames]_vars

\* a capture ended by the recording limit has written an utterance whose
\* first frame is not the first frame read: older ones had left the buffer
C37_Witness ==
    /\ tpc = "done"
    /\ end_kind = "forced"
    /\ file_frames # <<>>
    /\ file_frames[1] > 1
    /\ file_frames = FrameRange(file_frames[1], file_frames[Len(file_frames)])

\* C38: once async_shutdown has returned, the main loop has ended and stays
\* ended: no step after that starts a capture, a capture thread, a
\* transcription or a playback, and a trigger delivered then only writes the
\* state.
C38_NoWorkAfterShutdown ==
    /\ [](spc = "done" => (pc = "cancelled" /\ ~running))
    /\ [][spc = "done"
            => /\ pc' = "cancelled"
               /\ n_captures' = n_captures
               /\ ~ThreadStarted
               /\ processed' = processed
               /\ response' = response
               /\ audio_data' = audio_data]_vars
    /\ [][(spc = "done" /\ n_delivered' = n_delivered + 1)
            => UNCHANGED <<capVars, devVars, auxVars>>]_vars

\* async_shutdown has returned; a trigger that found the state IdleListening
\* has written CapturingCommand and no capture was ever started for it
C38_Witness ==
    /\ spc = "done"
    /\ pc = "cancelled"
    /\ current_state = CAPTURING
    /\ n_accepted = 1
    /\ n_captures = 0
    /\ pending = 0
====
